---- MODULE Spec2Model ----
(***************************************************************************)
(* Risk & hedging control engine of HedgeAssist (bot/telegram_bot.py,       *)
(* hedging/strategies.py, risk/calculator.py).                              *)
(*                                                                          *)
(* Money amounts are integers.  Thresholds given as fractions are kept in   *)
(* basis points (0.05 = 500 bp).  Time is in seconds; the clock advances in *)
(* steps of ClockStep seconds.  Every coroutine is cut at its awaits: one   *)
(* action is the code between two suspension points.  Command handlers are  *)
(* dispatched one at a time by the application (run_polling without         *)
(* concurrent updates); monitor loops and the price polling loop are tasks  *)
(* that interleave with them at every await.                                *)
(***************************************************************************)
EXTENDS Integers, Sequences, FiniteSets, TLC

(* ------------------------------ bounds --------------------------------- *)
MaxObjs == 2
MaxHist == 2
MaxTicks == 3
MaxAlerts == 1
ClockStep == 1800
\* positions handed to calculate_portfolio_risk in one call
MaxPositions == 2

(* ------------------------- program constants --------------------------- *)
LARGE_TRADE_NOTIONAL_THRESHOLD == 100000
HEDGE_COOLDOWN == 300
SUPPRESS_RESET == 3600
PENDING_RESET == 1800
DEFAULT_THRESHOLD_BP == 500
REBALANCE_THRESHOLD_BP == 500
MAX_HEDGE_SIZE == 1000000
\* portfolio var_95 = total_value * 0.25 * 1.645 * sqrt(30/365)
\*                  = total_value * 0.1179 (four decimals)
VAR95_NUM == 1179
\* portfolio var_99 = total_value * 0.25 * 2.326 * sqrt(30/365)
\*                  = total_value * 0.1667 (four decimals)
VAR99_NUM == 1667
VAR95_DEN == 10000
\* the normal quantiles of calculate_position_greeks, times 1000
Z95 == 1645
Z99 == 2326
BP == 10000

(* --------------------------- input domains ----------------------------- *)
Chats == {1, 2}
\* the chat of the single-user scenarios
MainChats == {1}
Assets == {"BTC", "ETH"}
\* the asset of the single-position scenarios
MainAssets == {"BTC"}
Prices == {10, 2000}
NoPrice == 0
FetchResults == Prices \cup {NoPrice}
MonitorSizes == {100}
HedgeSizes == {100}
DeltaThresholds == {500}
NoVar == -1
VarThresholds == {20000}
ConfigDeltaThresholds == {2000}
StrategyNames == {"delta_neutral", "options", "dynamic"}
StrategyInputs == StrategyNames \cup {"bogus"}
NoStrategy == "none"
NoTime == -1
NoObj == 0
ObjIds == 1..MaxObjs
\* the monitor_position tasks that can be alive together
LoopIds == {1, 2}
HedgeMarkers == {"manual_hedge", "auto_hedge"}
\* arguments of validate_hedge
OrderSides == {"buy", "sell", "hold"}
OrderSizes == {-1, 0, 1, 100}
PosSides == {"long", "short", "none"}
\* arguments of generate_hedge_recommendation
RecSizes == {-100, 0, 100}
RecPrices == {10, 20, 2000}
RecDeltas == {-100, 0, 50, 100}
RecThresholds == {500, 1000}
\* arguments of calculate_position_greeks: volatility in percent
GreekSides == {"long", "short"}
GreekSizes == {0, 1, 100}
GreekPrices == {10, 20}
\* prices of a tick
BreachPrices == {10, 46000}
Volatilities == {0, 30}
\* arguments of calculate_portfolio_risk
PortfolioSizes == {0, 100}
\* arguments of DynamicHedgingStrategy.calculate_hedge
DynDeltas == RecDeltas \cup {2000000}

Abs(x) == IF x < 0 THEN -x ELSE x
Min(a, b) == IF a < b THEN a ELSE b

\* a / b < c / d for a, c >= 0 and b, d > 0: the comparison of two quotients
\* by their integer parts and remainders, so that amounts in the millions
\* need no product
RECURSIVE FracLess(_, _, _, _)
FracLess(a, b, c, d) ==
    LET q1 == a \div b
        q2 == c \div d
        r1 == a % b
        r2 == c % d
    IN  IF q1 # q2 THEN q1 < q2
        ELSE IF r2 = 0 THEN FALSE
        ELSE IF r1 = 0 THEN TRUE
        ELSE FracLess(d, r2, b, r1)

\* a / b < c / d for b, d > 0 and numerators of any sign
RatLess(a, b, c, d) ==
    IF a < 0 /\ c >= 0 THEN TRUE
    ELSE IF a >= 0 /\ c < 0 THEN FALSE
    ELSE IF a < 0 THEN FracLess(-c, d, -a, b)
    ELSE FracLess(a, b, c, d)

(* ----------------------- risk/calculator.py ---------------------------- *)
\* SpotDelta that forgets the side
SpotDeltaUnsigned(side, size) == size

\* calculate_position_greeks, spot branch: delta = +-size
SpotDelta(side, size) == IF side = "long" THEN size ELSE -size

\* calculate_position_greeks, spot branch: the four Greeks
SpotGreeks(side, size) ==
    [delta |-> SpotDelta(side, size), gamma |-> 0, theta |-> 0, vega |-> 0]

\* a RiskMetrics result; some = FALSE: None was returned
NoMetrics ==
    [some |-> FALSE, delta |-> 0, gamma |-> 0, theta |-> 0, vega |-> 0,
     var_95 |-> 0, var_99 |-> 0]

\* calculate_position_greeks for a position without option fields (the bot
\* builds no other kind), volatility in percent.  var_95 and var_99 are kept
\* as multiples of sqrt(time_to_expiry) / 100000, time_to_expiry = 30/365
calculate_position_greeks(side, size, price, volatility) ==
    LET position_value == size * price
        g == SpotGreeks(side, size)
    IN  [some |-> TRUE, delta |-> g.delta,
         gamma |-> g.gamma, theta |-> g.theta, vega |-> g.vega,
         var_95 |-> position_value * volatility * Z95,
         var_99 |-> position_value * volatility * Z99]

\* calculate_portfolio_risk: var_95 over the positions that have a snapshot,
\* as the pair (numerator, denominator)
PortfolioVar95Num(total_value) == total_value * VAR95_NUM
PortfolioVar99Num(total_value) == total_value * VAR99_NUM

\* portfolio var_95 > var_threshold, with var_95 = total_value * VAR95_NUM /
\* VAR95_DEN
Var95Above(total_value, var_threshold) ==
    RatLess(var_threshold * VAR95_DEN, VAR95_NUM, total_value, 1)

\* HasSnapshot that takes every position as priced
HasSnapshotAlways(position, market_data_dict) == TRUE

\* position.symbol in market_data_dict (NoPrice: the key is absent)
HasSnapshot(position, market_data_dict) == market_data_dict[position.symbol] # NoPrice

\* the for loop of calculate_portfolio_risk: the totals over the positions
RECURSIVE PortfolioTotals(_, _)
PortfolioTotals(positions, market_data_dict) ==
    IF positions = << >>
    THEN [delta |-> 0, gamma |-> 0, theta |-> 0, vega |-> 0, value |-> 0]
    ELSE LET position == Head(positions)
             rest == PortfolioTotals(Tail(positions), market_data_dict)
             price == market_data_dict[position.symbol]
             \* position_metrics: never None for a position without option
             \* fields; only its Greeks are read
             m == SpotGreeks(position.side, position.size)
         IN  IF HasSnapshot(position, market_data_dict)
             THEN [delta |-> rest.delta + m.delta, gamma |-> rest.gamma + m.gamma,
                   theta |-> rest.theta + m.theta, vega |-> rest.vega + m.vega,
                   value |-> rest.value + position.size * price]
             ELSE rest

\* calculate_portfolio_risk; var_95 and var_99 are kept times VAR95_DEN
calculate_portfolio_risk(positions, market_data_dict) ==
    LET t == PortfolioTotals(positions, market_data_dict)
    IN  [some |-> TRUE, delta |-> t.delta, gamma |-> t.gamma, theta |-> t.theta,
         vega |-> t.vega, var_95 |-> PortfolioVar95Num(t.value),
         var_99 |-> PortfolioVar99Num(t.value)]

\* generate_hedge_recommendation returning None
NoRecommendation == -1

\* QuotientAbove that is already true at the threshold
QuotientAtOrAbove(num, den, threshold) ==
    IF den > 0 THEN ~RatLess(num, den, threshold, BP)
    ELSE ~RatLess(-num, -den, threshold, BP)

\* num / den > threshold, the threshold in basis points, den # 0
QuotientAbove(num, den, threshold) ==
    IF den > 0 THEN RatLess(threshold, BP, num, den)
    ELSE RatLess(threshold, BP, -num, -den)

\* RiskCalculator.generate_hedge_recommendation: hedge_size of the
\* recommendation, or NoRecommendation
generate_hedge_recommendation(size, price, delta, threshold) ==
    LET position_value == size * price
    IN  IF position_value = 0 THEN NoRecommendation   \* ZeroDivisionError, caught
        ELSE IF QuotientAbove(Abs(delta), position_value, threshold)
             THEN Abs(delta)
             ELSE NoRecommendation

(* ---------------------- hedging/strategies.py -------------------------- *)
NoOrder == [side |-> "none", size |-> 0, price100 |-> 0]

\* validate_hedge without the direction checks
validate_hedge_any_direction(order, pos_side) ==
    IF order = NoOrder THEN FALSE
    ELSE IF order.size <= 0 THEN FALSE
    ELSE IF order.side \notin {"buy", "sell"} THEN FALSE
    ELSE TRUE

\* BaseHedgingStrategy.validate_hedge (pos_side = "none": no position given)
validate_hedge(order, pos_side) ==
    IF order = NoOrder THEN FALSE
    ELSE IF order.size <= 0 THEN FALSE
    ELSE IF order.side \notin {"buy", "sell"} THEN FALSE
    ELSE IF pos_side = "long" /\ order.side = "buy" THEN FALSE
    ELSE IF pos_side = "short" /\ order.side = "sell" THEN FALSE
    ELSE TRUE

\* QuotientBelow that is already true at the threshold
QuotientAtOrBelow(num, den, threshold) ==
    IF den > 0 THEN ~RatLess(threshold, BP, num, den)
    ELSE ~RatLess(threshold, BP, -num, -den)

\* num / den < threshold, the threshold in basis points, den # 0
QuotientBelow(num, den, threshold) ==
    IF den > 0 THEN RatLess(num, den, threshold, BP)
    ELSE RatLess(-num, -den, threshold, BP)

\* calculate_hedge whose dynamic strategy never skips the rebalancing
calculate_hedge_always(strategy, side, size, delta, price) ==
    CASE strategy = "options" ->
           [side |-> IF side = "long" THEN "buy" ELSE "sell",
            size |-> Abs(delta), price100 |-> price * 5]
      [] OTHER ->
           [side |-> IF side = "long" THEN "sell" ELSE "buy",
            size |-> Abs(delta), price100 |-> price * 100]

\* <Strategy>.calculate_hedge; order prices are kept times 100
calculate_hedge(strategy, side, size, delta, price) ==
    CASE strategy = "delta_neutral" ->
           [side |-> IF side = "long" THEN "sell" ELSE "buy",
            size |-> Abs(delta), price100 |-> price * 100]
      [] strategy = "options" ->
           [side |-> IF side = "long" THEN "buy" ELSE "sell",
            size |-> Abs(delta), price100 |-> price * 5]
      [] OTHER ->
           IF size * price = 0 THEN NoOrder   \* ZeroDivisionError, caught
           ELSE IF QuotientBelow(Abs(delta), size * price, REBALANCE_THRESHOLD_BP)
                THEN NoOrder
           ELSE [side |-> IF side = "long" THEN "sell" ELSE "buy",
                 size |-> Min(Abs(delta), MAX_HEDGE_SIZE),
                 price100 |-> price * 100]

\* <Strategy>.execute_hedge: HedgeResult.success
execute_hedge(order, pos_side) == validate_hedge(order, pos_side)


(* ------------------------------- state --------------------------------- *)
VARIABLES
    user_data,        \* HedgingBot.user_data: chat id -> user dict (object id)
    heap,             \* the user dicts, by object identity
    active_strategy,  \* HedgingManager.active_strategy
    loops,            \* the monitor_position tasks
    cmd,              \* the command / callback handler in flight
    prompts,          \* confirmation buttons shown in the chats
    now,              \* datetime.now(), seconds
    ev,               \* what the last step sent or did (outbound calls)
    calc              \* a call of a pure function: its arguments and its result

vars == <<user_data, heap, active_strategy, loops, cmd, prompts, now, ev, calc>>

\* user['positions'][asset]; present = FALSE: the key is absent.
\* pending_confirmation / last_hedge_time absent read as False / None (.get).
EmptyEntry ==
    [present |-> FALSE, size |-> 0, side |-> "long",
     threshold |-> 0, var_threshold |-> NoVar, is_active |-> FALSE,
     suppress_alerts |-> FALSE, pending_confirmation |-> FALSE,
     last_hedge_time |-> NoTime, history |-> << >>]

\* a user dict; live = FALSE: no such object.  strategy = NoStrategy: the
\* 'auto_hedge' key is absent.  alerts: len(user.get('custom_alerts', [])).
DeadUser ==
    [live |-> FALSE, positions |-> [a \in Assets |-> EmptyEntry],
     enabled |-> FALSE, strategy |-> NoStrategy, portfolio_real |-> FALSE,
     alerts |-> 0]

\* _get_user: a fresh user dict
NewUser == [DeadUser EXCEPT !.live = TRUE]

FreeLoop ==
    [pc |-> "free", chat |-> 0, asset |-> "", user |-> NoObj, user2 |-> NoObj,
     dbreach |-> FALSE, vth |-> NoVar, breach |-> "none"]

IdleCmd == [kind |-> "idle", chat |-> 0, asset |-> "", size |-> 0, user |-> NoObj]

\* no pure function called
NoCalc ==
    [fn |-> "none", done |-> FALSE, order |-> NoOrder, pos_side |-> "none",
     size |-> 0, price |-> 0, delta |-> 0, threshold |-> 0,
     volatility |-> 0, var_threshold |-> NoVar, total_value |-> 0,
     positions |-> << >>, market_data_dict |-> [a \in Assets |-> NoPrice],
     valid |-> FALSE, hedge_size |-> 0, metrics |-> NoMetrics,
     hedge_order |-> NoOrder, breach_type |-> "none", strategy |-> NoStrategy]

Event(type, chat, obj, asset, n, flag, tag) ==
    [type |-> type, chat |-> chat, obj |-> obj, asset |-> asset, n |-> n,
     flag |-> flag, tag |-> tag]

Init ==
    /\ user_data = [c \in Chats |-> NoObj]
    /\ heap = [o \in ObjIds |-> DeadUser]
    /\ active_strategy = NoStrategy
    /\ loops = [l \in LoopIds |-> FreeLoop]
    /\ cmd = IdleCmd
    /\ prompts = {}
    /\ now = 0
    /\ ev = {}
    /\ calc = NoCalc

(* ------------------------ object bookkeeping --------------------------- *)
FreeObjs(h) == {o \in ObjIds : ~h[o].live}
LowestFree(h) == CHOOSE o \in FreeObjs(h) : \A o2 \in FreeObjs(h) : o <= o2

\* _get_user(chat_id) can run: the dict exists or one can be created
CanGetUser(h, ud, chat) == ud[chat] # NoObj \/ FreeObjs(h) # {}

\* _get_user(chat_id): the object returned, and the registry / heap after it
GetUserObj(h, ud, chat) == IF ud[chat] # NoObj THEN ud[chat] ELSE LowestFree(h)
GetUserData(h, ud, chat) ==
    IF ud[chat] # NoObj THEN ud ELSE [ud EXCEPT ![chat] = LowestFree(h)]
GetUserHeap(h, ud, chat) ==
    IF ud[chat] # NoObj THEN h ELSE [h EXCEPT ![LowestFree(h)] = NewUser]

\* a user dict nobody references any more is reclaimed
Referenced(ud, lp, c) ==
    {ud[ch] : ch \in Chats} \cup {lp[l].user : l \in LoopIds}
      \cup {lp[l].user2 : l \in LoopIds} \cup {c.user}
Collect(h, ud, lp, c) ==
    [o \in ObjIds |-> IF o \in Referenced(ud, lp, c) THEN h[o] ELSE DeadUser]

EntryOf(h, obj, asset) == h[obj].positions[asset]
SetEntry(h, obj, asset, e) == [h EXCEPT ![obj].positions[asset] = e]
HasEntry(h, obj, asset) == obj # NoObj /\ h[obj].live /\ h[obj].positions[asset].present

\* history.append({'action': action, 'time': datetime.now()})
Append1(hist, action, t) == Append(hist, [action |-> action, time |-> t])
Room(e) == Len(e.history) < MaxHist

\* for action in reversed(history): if action in kinds: time; break
RECURSIVE LastTime(_, _)
LastTime(hist, kinds) ==
    IF hist = << >> THEN NoTime
    ELSE IF hist[Len(hist)].action \in kinds THEN hist[Len(hist)].time
    ELSE LastTime(SubSeq(hist, 1, Len(hist) - 1), kinds)

\* user.get('auto_hedge', {}).get('strategy', 'delta_neutral')
UserStrategy(u) == IF u.strategy = NoStrategy THEN "delta_neutral" ELSE u.strategy

\* set_strategy that takes any name
set_strategy_any(active, name) == name

\* HedgingManager.set_strategy: the active strategy afterwards
set_strategy(active, name) == IF name \in StrategyNames THEN name ELSE active

\* outcome of calculate_hedge + execute_hedge on the active strategy:
\* "none" (no order), "ok" (success), "failed" (success = False)
HedgeOutcome(strategy, side, size, price) ==
    LET order == calculate_hedge(strategy, side, size, SpotDelta(side, size), price)
    IN  IF order = NoOrder THEN "none"
        ELSE IF execute_hedge(order, side) THEN "ok" ELSE "failed"

Notional(size, price) == Abs(size * price)


(* --------------------------- command handlers -------------------------- *)
FreeLoops(lp) == {l \in LoopIds : lp[l].pc = "free"}
LowestFreeLoop(lp) == CHOOSE l \in FreeLoops(lp) : \A l2 \in FreeLoops(lp) : l <= l2

\* StartMonitoring that re-arms an existing entry in place
StartMonitoringKeepsEntry(chat, asset, size, dth, vth) ==
    /\ cmd.kind = "idle"
    /\ CanGetUser(heap, user_data, chat)
    /\ FreeLoops(loops) # {}
    /\ LET obj == GetUserObj(heap, user_data, chat)
           h1  == GetUserHeap(heap, user_data, chat)
           old == EntryOf(h1, obj, asset)
           new == [(IF old.present THEN old ELSE EmptyEntry) EXCEPT
                      !.present = TRUE, !.size = size,
                      !.threshold = dth, !.var_threshold = vth,
                      !.is_active = TRUE]
       IN  /\ user_data' = GetUserData(heap, user_data, chat)
           /\ heap' = SetEntry(h1, obj, asset, new)
           /\ loops' = [loops EXCEPT ![LowestFreeLoop(loops)] =
                           [FreeLoop EXCEPT !.pc = "start", !.chat = chat,
                                            !.asset = asset]]
           /\ ev' = {Event("start", chat, obj, asset, dth, old.present, "")}
    /\ UNCHANGED <<calc, active_strategy, cmd, prompts, now>>

\* monitor_risk_command: /monitor_risk <asset> <size> <delta> [<var>]
StartMonitoring(chat, asset, size, dth, vth) ==
    /\ cmd.kind = "idle"
    /\ CanGetUser(heap, user_data, chat)
    /\ FreeLoops(loops) # {}
    /\ LET obj == GetUserObj(heap, user_data, chat)
           h1  == GetUserHeap(heap, user_data, chat)
           old == EntryOf(h1, obj, asset)
           new == [EmptyEntry EXCEPT !.present = TRUE, !.size = size,
                                     !.threshold = dth, !.var_threshold = vth,
                                     !.is_active = TRUE]
       IN  /\ user_data' = GetUserData(heap, user_data, chat)
           /\ heap' = SetEntry(h1, obj, asset, new)
           /\ loops' = [loops EXCEPT ![LowestFreeLoop(loops)] =
                           [FreeLoop EXCEPT !.pc = "start", !.chat = chat,
                                            !.asset = asset]]
           /\ ev' = {Event("start", chat, obj, asset, dth, old.present, "")}
    /\ UNCHANGED <<calc, active_strategy, cmd, prompts, now>>

\* button_callback, data == "portfolio_real"
SelectPortfolio(chat) ==
    /\ cmd.kind = "idle"
    /\ CanGetUser(heap, user_data, chat)
    /\ LET obj == GetUserObj(heap, user_data, chat)
           h1  == GetUserHeap(heap, user_data, chat)
       IN  /\ ~h1[obj].portfolio_real
           /\ user_data' = GetUserData(heap, user_data, chat)
           /\ heap' = [h1 EXCEPT ![obj].portfolio_real = TRUE]
    /\ ev' = {}
    /\ UNCHANGED <<calc, active_strategy, loops, cmd, prompts, now>>

\* auto_hedge_command: /auto_hedge <strategy> <threshold>
AutoHedgeCmd(chat, strategy) ==
    /\ cmd.kind = "idle"
    /\ CanGetUser(heap, user_data, chat)
    /\ LET obj == GetUserObj(heap, user_data, chat)
           h1  == GetUserHeap(heap, user_data, chat)
           ok  == h1[obj].portfolio_real /\ strategy \in StrategyNames
       IN  /\ user_data' = GetUserData(heap, user_data, chat)
           /\ heap' = IF ok
                      THEN [h1 EXCEPT ![obj].enabled = TRUE,
                                      ![obj].strategy = strategy]
                      ELSE h1
           /\ active_strategy' = IF h1[obj].portfolio_real
                                 THEN set_strategy(active_strategy, strategy)
                                 ELSE active_strategy
           /\ ev' = {Event("auto_hedge_cmd", chat, obj, "", 0, ok, strategy)}
    /\ UNCHANGED <<calc, loops, cmd, prompts, now>>

\* Configure that replaces the delta threshold only
ConfigureDeltaOnly(chat, asset, dth, vth) ==
    /\ cmd.kind = "idle"
    /\ CanGetUser(heap, user_data, chat)
    /\ LET obj == GetUserObj(heap, user_data, chat)
           h1  == GetUserHeap(heap, user_data, chat)
           e   == EntryOf(h1, obj, asset)
       IN  /\ e.present => Room(e)
           /\ user_data' = GetUserData(heap, user_data, chat)
           /\ heap' = IF e.present
                      THEN SetEntry(h1, obj, asset,
                             [e EXCEPT !.threshold = dth,
                                       !.suppress_alerts = TRUE,
                                       !.history = Append1(e.history, "configure_monitor", now)])
                      ELSE h1
           /\ ev' = {Event("configure", chat, obj, asset, dth, e.present,
                           IF vth = NoVar THEN "no_var" ELSE "var")}
    /\ UNCHANGED <<calc, active_strategy, loops, cmd, prompts, now>>

\* configure_monitor_command: /configure_monitor <asset> <delta> [<var>]
Configure(chat, asset, dth, vth) ==
    /\ cmd.kind = "idle"
    /\ CanGetUser(heap, user_data, chat)
    /\ LET obj == GetUserObj(heap, user_data, chat)
           h1  == GetUserHeap(heap, user_data, chat)
           e   == EntryOf(h1, obj, asset)
       IN  /\ e.present => Room(e)
           /\ user_data' = GetUserData(heap, user_data, chat)
           /\ heap' = IF e.present
                      THEN SetEntry(h1, obj, asset,
                             [e EXCEPT !.threshold = dth, !.var_threshold = vth,
                                       !.suppress_alerts = TRUE,
                                       !.history = Append1(e.history, "configure_monitor", now)])
                      ELSE h1
           /\ ev' = {Event("configure", chat, obj, asset, dth, e.present,
                           IF vth = NoVar THEN "no_var" ELSE "var")}
    /\ UNCHANGED <<calc, active_strategy, loops, cmd, prompts, now>>

\* ResetAlerts that also switches the entries back on
ResetAlertsReactivates(chat) ==
    /\ cmd.kind = "idle"
    /\ CanGetUser(heap, user_data, chat)
    /\ LET obj == GetUserObj(heap, user_data, chat)
           h1  == GetUserHeap(heap, user_data, chat)
       IN  /\ user_data' = GetUserData(heap, user_data, chat)
           /\ heap' = [h1 EXCEPT ![obj].positions =
                         [a \in Assets |-> [h1[obj].positions[a] EXCEPT
                                               !.suppress_alerts = FALSE,
                                               !.is_active = @ \/ h1[obj].positions[a].present]]]
    /\ ev' = {}
    /\ UNCHANGED <<calc, active_strategy, loops, cmd, prompts, now>>

\* button_callback, data == "threshold_<asset>" (Adjust Threshold under an
\* alert): suppression and a history entry, no threshold is changed
ThresholdButton(chat, asset) ==
    /\ cmd.kind = "idle"
    /\ CanGetUser(heap, user_data, chat)
    /\ LET obj == GetUserObj(heap, user_data, chat)
           h1  == GetUserHeap(heap, user_data, chat)
           e   == EntryOf(h1, obj, asset)
       IN  /\ e.present => Room(e)
           /\ user_data' = GetUserData(heap, user_data, chat)
           /\ heap' = IF e.present
                      THEN SetEntry(h1, obj, asset,
                             [e EXCEPT !.suppress_alerts = TRUE,
                                       !.history = Append1(e.history, "adjust_threshold", now)])
                      ELSE h1
           /\ ev' = {Event("button", chat, obj, asset, 0, e.present, "threshold")}
    /\ UNCHANGED <<calc, active_strategy, loops, cmd, prompts, now>>

\* reset_alerts_command: /reset_alerts
ResetAlerts(chat) ==
    /\ cmd.kind = "idle"
    /\ CanGetUser(heap, user_data, chat)
    /\ LET obj == GetUserObj(heap, user_data, chat)
           h1  == GetUserHeap(heap, user_data, chat)
       IN  /\ user_data' = GetUserData(heap, user_data, chat)
           /\ heap' = [h1 EXCEPT ![obj].positions =
                         [a \in Assets |-> [h1[obj].positions[a] EXCEPT
                                               !.suppress_alerts = FALSE]]]
    /\ ev' = {}
    /\ UNCHANGED <<calc, active_strategy, loops, cmd, prompts, now>>

\* stop_monitoring_command: /stop_monitoring [<asset>]; target "ALL" or an asset
StopMonitoring(chat, target) ==
    /\ cmd.kind = "idle"
    /\ LET ud1 == IF target = "ALL"
                  THEN [c \in Chats |-> NoObj]        \* self.user_data.clear()
                  ELSE user_data     \* asset in self.user_data: keys are chat ids
       IN  /\ user_data' = ud1
           /\ heap' = Collect(heap, ud1, loops, cmd)
    /\ ev' = {Event("stop", chat, user_data[chat], target, 0, FALSE, "")}
    /\ UNCHANGED <<calc, active_strategy, loops, cmd, prompts, now>>

\* the emergency stop itself, as emergency_stop_command and the
\* confirm_emergency_stop button both run it: the user dict afterwards
EmergencyStopped(u) ==
    [u EXCEPT !.positions = [a \in Assets |-> [u.positions[a] EXCEPT
                                                  !.is_active = FALSE]],
              !.enabled = FALSE,
              !.alerts = 0]

\* StoppedCount that counts every entry
StoppedCountAllEntries(u) ==
    Cardinality({a \in Assets : u.positions[a].present})

\* stopped_count of an emergency stop
StoppedCount(u) ==
    Cardinality({a \in Assets : u.positions[a].present /\ u.positions[a].is_active})

EmergencyPrompt(chat) ==
    [chat |-> chat, asset |-> "", size |-> 0, kind |-> "emergency_stop"]

\* emergency_stop_command: /emergency_stop
EmergencyStop(chat) ==
    /\ cmd.kind = "idle"
    /\ CanGetUser(heap, user_data, chat)
    /\ LET obj == GetUserObj(heap, user_data, chat)
           h1  == GetUserHeap(heap, user_data, chat)
       IN  /\ user_data' = GetUserData(heap, user_data, chat)
           /\ heap' = [h1 EXCEPT ![obj] = EmergencyStopped(h1[obj])]
           /\ ev' = {Event("emergency_stop", chat, obj, "", StoppedCount(h1[obj]),
                           TRUE, "request")}
    /\ prompts' = prompts \cup {EmergencyPrompt(chat)}
    /\ UNCHANGED <<calc, active_strategy, loops, cmd, now>>

\* button_callback, data == "confirm_emergency_stop"
ConfirmEmergencyStop(chat) ==
    /\ cmd.kind = "idle"
    /\ EmergencyPrompt(chat) \in prompts
    /\ CanGetUser(heap, user_data, chat)
    /\ LET obj == GetUserObj(heap, user_data, chat)
           h1  == GetUserHeap(heap, user_data, chat)
       IN  /\ user_data' = GetUserData(heap, user_data, chat)
           /\ heap' = [h1 EXCEPT ![obj] = EmergencyStopped(h1[obj])]
           /\ ev' = {Event("emergency_stop", chat, obj, "", StoppedCount(h1[obj]),
                           TRUE, "confirm")}
    /\ prompts' = prompts \ {EmergencyPrompt(chat)}
    /\ UNCHANGED <<calc, active_strategy, loops, cmd, now>>

\* button_callback, data == "cancel_emergency_stop": the message is edited,
\* nothing of the user dict is written
CancelEmergencyStop(chat) ==
    /\ cmd.kind = "idle"
    /\ EmergencyPrompt(chat) \in prompts
    /\ CanGetUser(heap, user_data, chat)
    /\ user_data' = GetUserData(heap, user_data, chat)
    /\ heap' = GetUserHeap(heap, user_data, chat)
    /\ ev' = {Event("emergency_cancel", chat, GetUserObj(heap, user_data, chat), "",
                    0, FALSE, "cancel")}
    /\ prompts' = prompts \ {EmergencyPrompt(chat)}
    /\ UNCHANGED <<calc, active_strategy, loops, cmd, now>>

\* what data.split("_")[1] makes of the three strategy buttons
\* strategy_delta_neutral, strategy_options, strategy_dynamic
ButtonStrategies == {"delta", "options", "dynamic"}

\* button_callback, data == "strategy_<name>": the manager's strategy is set,
\* the user's auto_hedge setting is not
StrategyButton(chat, name) ==
    /\ cmd.kind = "idle"
    /\ CanGetUser(heap, user_data, chat)
    /\ user_data' = GetUserData(heap, user_data, chat)
    /\ heap' = GetUserHeap(heap, user_data, chat)
    /\ active_strategy' = set_strategy(active_strategy, name)
    /\ ev' = {Event("button", chat, GetUserObj(heap, user_data, chat), "", 0,
                    name \in StrategyNames, "strategy")}
    /\ UNCHANGED <<calc, loops, cmd, prompts, now>>

\* set_alert_command: /set_alert <metric> <condition> <value>
SetAlert(chat) ==
    /\ cmd.kind = "idle"
    /\ CanGetUser(heap, user_data, chat)
    /\ LET obj == GetUserObj(heap, user_data, chat)
           h1  == GetUserHeap(heap, user_data, chat)
       IN  /\ h1[obj].alerts < MaxAlerts
           /\ user_data' = GetUserData(heap, user_data, chat)
           /\ heap' = [h1 EXCEPT ![obj].alerts = @ + 1]
    /\ ev' = {}
    /\ UNCHANGED <<calc, active_strategy, loops, cmd, prompts, now>>


(* ------------------------ manual hedge request ------------------------- *)
\* hedge_now_command up to its first await: /hedge_now <asset> <size>
HedgeNowStart(chat, asset, size) ==
    /\ cmd.kind = "idle"
    /\ CanGetUser(heap, user_data, chat)
    /\ LET obj == GetUserObj(heap, user_data, chat)
           h1  == GetUserHeap(heap, user_data, chat)
           e   == EntryOf(h1, obj, asset)
       IN  /\ user_data' = GetUserData(heap, user_data, chat)
           /\ heap' = IF e.present
                      THEN SetEntry(h1, obj, asset, [e EXCEPT !.size = size])
                      ELSE h1
           /\ cmd' = [kind |-> IF e.present THEN "hedge_fetch" ELSE "hedge_create",
                      chat |-> chat, asset |-> asset, size |-> size, user |-> obj]
    /\ ev' = {}
    /\ UNCHANGED <<calc, active_strategy, loops, prompts, now>>

\* hedge_now_command, no entry yet: the basic position is created once the
\* price is there
HedgeNowCreate(p) ==
    /\ cmd.kind = "hedge_create"
    /\ IF p = NoPrice
       THEN /\ cmd' = IdleCmd
            /\ heap' = Collect(heap, user_data, loops, IdleCmd)
       ELSE /\ cmd' = [cmd EXCEPT !.kind = "hedge_fetch"]
            /\ heap' = SetEntry(heap, cmd.user, cmd.asset,
                          [EmptyEntry EXCEPT !.present = TRUE, !.size = cmd.size,
                                             !.threshold = DEFAULT_THRESHOLD_BP])
    /\ ev' = {}
    /\ UNCHANGED <<calc, user_data, active_strategy, loops, prompts, now>>

\* hedge_now_command after the price fetch
HedgeNowFinish(p) ==
    /\ cmd.kind = "hedge_fetch"
    /\ LET obj == cmd.user
           e   == EntryOf(heap, obj, cmd.asset)
           big == Notional(cmd.size, p) > LARGE_TRADE_NOTIONAL_THRESHOLD
           strategy == UserStrategy(heap[obj])
           out == HedgeOutcome(strategy, e.side, e.size, p)
           run == p # NoPrice /\ ~big
           h1  == IF run /\ out = "ok"
                  THEN SetEntry(heap, obj, cmd.asset,
                         [e EXCEPT !.suppress_alerts = TRUE,
                                   !.history = Append1(e.history, "manual_hedge", now)])
                  ELSE heap
       IN  /\ (run /\ out = "ok") => Room(e)
           /\ heap' = Collect(h1, user_data, loops, IdleCmd)
           /\ active_strategy' = IF run THEN set_strategy(active_strategy, strategy)
                                 ELSE active_strategy
           /\ prompts' = IF p # NoPrice /\ big
                         THEN prompts \cup {[chat |-> cmd.chat, asset |-> cmd.asset,
                                             size |-> cmd.size, kind |-> "hedge"]}
                         ELSE prompts
           /\ ev' = IF p = NoPrice THEN {}
                    ELSE IF big
                    THEN {Event("prompt", cmd.chat, obj, cmd.asset,
                                Notional(cmd.size, p), FALSE, "hedge")}
                    ELSE IF out = "none" THEN {}
                    ELSE {Event("executed", cmd.chat, obj, cmd.asset,
                                Notional(e.size, p), out = "ok", "manual")}
                         \cup (IF out = "ok"
                               THEN {Event("hedge_done", cmd.chat, obj, cmd.asset,
                                           Notional(e.size, p), TRUE, "manual")}
                               ELSE {})
    /\ cmd' = IdleCmd
    /\ UNCHANGED <<calc, user_data, loops, now>>

(* ------------------------- confirmation events ------------------------- *)
\* button_callback, confirm_hedge_<asset>_<size> / confirm_autohedge_<asset>_<size>:
\* _execute_confirmed_hedge / _execute_confirmed_autohedge up to the price fetch
ConfirmStart(pr) ==
    /\ cmd.kind = "idle"
    /\ pr \in prompts
    /\ pr.kind \in {"hedge", "autohedge"}
    /\ CanGetUser(heap, user_data, pr.chat)
    /\ LET obj == GetUserObj(heap, user_data, pr.chat)
           h1  == GetUserHeap(heap, user_data, pr.chat)
           e   == EntryOf(h1, obj, pr.asset)
       IN  /\ user_data' = GetUserData(heap, user_data, pr.chat)
           /\ heap' = IF e.present
                      THEN SetEntry(h1, obj, pr.asset, [e EXCEPT !.size = pr.size])
                      ELSE h1
           \* no entry: KeyError, caught by button_callback
           /\ cmd' = IF e.present
                     THEN [kind |-> IF pr.kind = "hedge" THEN "confirm_hedge"
                                    ELSE "confirm_autohedge",
                           chat |-> pr.chat, asset |-> pr.asset, size |-> pr.size,
                           user |-> obj]
                     ELSE IdleCmd
           /\ ev' = IF e.present THEN {}
                    ELSE {Event("confirm_error", pr.chat, obj, pr.asset, 0, FALSE, pr.kind)}
    /\ UNCHANGED <<calc, active_strategy, loops, prompts, now>>

\* _execute_confirmed_hedge / _execute_confirmed_autohedge after the price fetch
ConfirmFinish(p) ==
    /\ cmd.kind \in {"confirm_hedge", "confirm_autohedge"}
    /\ LET obj == cmd.user
           e   == EntryOf(heap, obj, cmd.asset)
           strategy == UserStrategy(heap[obj])
           out == IF p = NoPrice THEN "noprice"
                  ELSE HedgeOutcome(strategy, e.side, e.size, p)
           marker == IF cmd.kind = "confirm_hedge" THEN "manual_hedge" ELSE "auto_hedge"
           e1  == CASE out = "ok" ->
                         [e EXCEPT !.suppress_alerts = TRUE,
                                   !.pending_confirmation = FALSE,
                                   !.history = Append1(e.history, marker, now),
                                   !.last_hedge_time = now]
                     [] out = "failed" -> [e EXCEPT !.pending_confirmation = FALSE]
                     [] OTHER -> e
       IN  /\ out = "ok" => Room(e)
           /\ heap' = Collect(SetEntry(heap, obj, cmd.asset, e1), user_data, loops, IdleCmd)
           /\ active_strategy' = IF p # NoPrice THEN set_strategy(active_strategy, strategy)
                                 ELSE active_strategy
           /\ ev' = {Event("confirm_done", cmd.chat, obj, cmd.asset, 0, out = "ok", out)}
                    \cup (IF out \in {"ok", "failed"}
                          THEN {Event("executed", cmd.chat, obj, cmd.asset,
                                      Notional(e.size, p), out = "ok", cmd.kind)}
                          ELSE {})
                    \cup (IF out = "ok"
                          THEN {Event("hedge_done", cmd.chat, obj, cmd.asset,
                                      Notional(e.size, p), TRUE, cmd.kind)}
                          ELSE {})
    /\ cmd' = IdleCmd
    /\ UNCHANGED <<calc, user_data, loops, prompts, now>>


(* --------------------------- monitor_position -------------------------- *)
\* while asset in user['positions'] and user['positions'][asset]["is_active"]
LoopCond(h, l) == HasEntry(h, l.user, l.asset) /\ EntryOf(h, l.user, l.asset).is_active

\* the loop record after a tick ends: next sleep, or the task is over
LoopBack(h, l) ==
    IF LoopCond(h, l)
    THEN [l EXCEPT !.pc = "sleep", !.user2 = NoObj, !.dbreach = FALSE, !.vth = NoVar,
                   !.breach = "none"]
    ELSE FreeLoop

ExitEvents(h, l) ==
    IF LoopCond(h, l) THEN {}
    ELSE {Event("loop_exit", l.chat, l.user, l.asset, 0, FALSE, "")}

\* monitor_position, task start: user = self._get_user(chat_id), first loop test
MonitorStart(l) ==
    /\ loops[l].pc = "start"
    /\ CanGetUser(heap, user_data, loops[l].chat)
    /\ LET obj == GetUserObj(heap, user_data, loops[l].chat)
           h1  == GetUserHeap(heap, user_data, loops[l].chat)
           ud1 == GetUserData(heap, user_data, loops[l].chat)
           l1  == [loops[l] EXCEPT !.user = obj]
           lp1 == [loops EXCEPT ![l] = LoopBack(h1, l1)]
       IN  /\ user_data' = ud1
           /\ loops' = lp1
           /\ heap' = Collect(h1, ud1, lp1, cmd)
           /\ ev' = ExitEvents(h1, l1)
    /\ UNCHANGED <<calc, active_strategy, cmd, prompts, now>>

\* current_risk > threshold, with current_risk = |delta| / position_value
DeltaBreach(e, price) ==
    LET position_value == Abs(e.size * price)
    IN  position_value # 0
        /\ QuotientAbove(Abs(SpotDelta(e.side, e.size)), position_value, e.threshold)

\* monitor_position after the sleep: the price fetch and the position metrics
MonitorFetch(l, p) ==
    /\ loops[l].pc = "sleep"
    /\ LET obj == loops[l].user
           e   == EntryOf(heap, obj, loops[l].asset)
       IN  IF p = NoPrice
           THEN /\ heap' = heap
                /\ loops' = [loops EXCEPT ![l] = [loops[l] EXCEPT !.pc = "failed"]]
                /\ ev' = {Event("fetch_failed", loops[l].chat, obj, loops[l].asset,
                                0, FALSE, "")}
           ELSE /\ heap' = heap
                /\ loops' = [loops EXCEPT ![l] =
                               [loops[l] EXCEPT !.pc = "portfolio",
                                                !.dbreach = DeltaBreach(e, p),
                                                !.vth = e.var_threshold]]
                \* current_risk and threshold of this tick
                /\ ev' = {Event("risk", loops[l].chat, obj, loops[l].asset, p,
                                DeltaBreach(e, p), "")}
    /\ UNCHANGED <<calc, user_data, active_strategy, cmd, prompts, now>>

\* MonitorStop that only breaks out of the loop
MonitorStopKeepsActive(l) ==
    /\ loops[l].pc = "failed"
    /\ LET obj == loops[l].user
           lp1 == [loops EXCEPT ![l] = FreeLoop]
       IN  /\ loops' = lp1
           /\ heap' = Collect(heap, user_data, lp1, cmd)
           /\ ev' = {Event("loop_exit", loops[l].chat, obj, loops[l].asset,
                           0, FALSE, "fetch_failed")}
    /\ UNCHANGED <<calc, user_data, active_strategy, cmd, prompts, now>>

\* monitor_position after the "Monitoring stopped" message: is_active, break
MonitorStop(l) ==
    /\ loops[l].pc = "failed"
    /\ LET obj == loops[l].user
           e   == EntryOf(heap, obj, loops[l].asset)
           lp1 == [loops EXCEPT ![l] = FreeLoop]
       IN  /\ loops' = lp1
           /\ heap' = Collect(SetEntry(heap, obj, loops[l].asset,
                                       [e EXCEPT !.is_active = FALSE]),
                              user_data, lp1, cmd)
           /\ ev' = {Event("loop_exit", loops[l].chat, obj, loops[l].asset,
                           0, FALSE, "fetch_failed")}
    /\ UNCHANGED <<calc, user_data, active_strategy, cmd, prompts, now>>

\* BreachType in which a delta breach hides the VaR breach
BreachTypeDeltaFirst(dbreach, vth, total_value) ==
    IF dbreach THEN "delta"
    ELSE IF vth # NoVar /\ Var95Above(total_value, vth) THEN "var"
    ELSE "none"

\* breach_type of a tick
BreachType(dbreach, vth, total_value) ==
    IF vth # NoVar /\ Var95Above(total_value, vth) THEN "var"
    ELSE IF dbreach THEN "delta"
    ELSE "none"

\* AlertSent that leaves a breach to the auto-hedge when one is enabled
AlertSentUnlessAutoHedge(h, l, reg, breach) ==
    /\ breach # "none"
    /\ ~h[l.user].enabled
    /\ ~EntryOf(h, l.user, l.asset).suppress_alerts
    /\ ~(HasEntry(h, reg, l.asset) /\ EntryOf(h, reg, l.asset).suppress_alerts)

\* AlertSent without the suppress_alerts tests
AlertSentOnAnyBreach(h, l, reg, breach) == breach # "none"

\* if breach_type and not suppress_alerts: send_risk_alert(...), which looks
\* the entry up again through _get_user(chat_id)
AlertSent(h, l, reg, breach) ==
    /\ breach # "none"
    /\ ~EntryOf(h, l.user, l.asset).suppress_alerts
    /\ ~(HasEntry(h, reg, l.asset) /\ EntryOf(h, reg, l.asset).suppress_alerts)

\* recent-hedge cooldown of the gating check
RecentHedge(e, t) == e.last_hedge_time # NoTime /\ t - e.last_hedge_time < HEDGE_COOLDOWN

\* GatePasses without the recent-hedge cooldown
GatePassesNoCooldown(h, l, breach, t) ==
    LET e == EntryOf(h, l.user, l.asset)
    IN  /\ h[l.user].enabled
        /\ breach # "none"
        /\ ~e.pending_confirmation
        /\ ~e.suppress_alerts

\* the gating check of the tick: whether hedge_now_command_for_auto is called
GatePasses(h, l, breach, t) ==
    LET e == EntryOf(h, l.user, l.asset)
    IN  /\ h[l.user].enabled
        /\ breach # "none"
        /\ ~e.pending_confirmation
        /\ ~e.suppress_alerts
        /\ ~RecentHedge(e, t)

\* the gating check and, when it passes, hedge_now_command_for_auto up to its
\* price fetch; reg is what _get_user(chat_id) returns there
GateLoop(h, l, reg, breach, t) ==
    IF ~GatePasses(h, l, breach, t) THEN LoopBack(h, l)
    ELSE IF ~HasEntry(h, reg, l.asset)
         THEN [l EXCEPT !.pc = "errsleep"]        \* KeyError, caught by the loop
    ELSE [l EXCEPT !.pc = "auto_fetch", !.user2 = reg, !.breach = breach]

GateEvents(h, l, breach, t) ==
    {Event("gate", l.chat, l.user, l.asset, 0, GatePasses(h, l, breach, t), breach)}
      \cup (IF GatePasses(h, l, breach, t) THEN {} ELSE ExitEvents(h, l))

\* positions = [data['position'] for data in user['positions'].values()]
RECURSIVE PositionsOf(_, _)
PositionsOf(u, assets) ==
    IF assets = {} THEN << >>
    ELSE LET a == CHOOSE x \in assets : TRUE
             e == u.positions[a]
         IN  (IF e.present THEN <<[symbol |-> a, side |-> e.side, size |-> e.size]>>
              ELSE << >>) \o PositionsOf(u, assets \ {a})

\* the results of the fetch_price calls of one round over user['positions']
MarketSnapshots == [Assets -> FetchResults]

\* send_risk_alert that marks the entry as alerted by suppressing it
AlertWritesSuppress(h, l) ==
    SetEntry(h, l.user, l.asset,
             [EntryOf(h, l.user, l.asset) EXCEPT !.suppress_alerts = TRUE])

\* send_risk_alert: the user dicts after the alert went out; it builds the
\* text and the keyboard and sends them, and assigns to nothing
AlertWrites(h, l) == h

\* monitor_position after the portfolio price fetches: portfolio metrics,
\* custom alerts, breach evaluation, the alert; the gating check follows at once
\* when no alert is awaited.  market_data_dict holds the prices fetched for
\* the assets of user['positions']
MonitorEval(l, market_data_dict) ==
    /\ loops[l].pc = "portfolio"
    /\ \A a \in Assets : ~heap[loops[l].user].positions[a].present
                            => market_data_dict[a] = NoPrice
    /\ CanGetUser(heap, user_data, loops[l].chat)
    /\ LET lr  == loops[l]
           reg == GetUserObj(heap, user_data, lr.chat)   \* _check_custom_alerts
           h1  == GetUserHeap(heap, user_data, lr.chat)
           ud1 == GetUserData(heap, user_data, lr.chat)
           total_value == PortfolioTotals(PositionsOf(h1[lr.user], Assets),
                                          market_data_dict).value
           breach == BreachType(lr.dbreach, lr.vth, total_value)
           alert == AlertSent(h1, lr, reg, breach)
           l1  == IF alert THEN [lr EXCEPT !.pc = "gate", !.breach = breach]
                  ELSE GateLoop(h1, lr, reg, breach, now)
           lp1 == [loops EXCEPT ![l] = l1]
       IN  /\ user_data' = ud1
           /\ loops' = lp1
           /\ heap' = Collect(IF alert THEN AlertWrites(h1, lr) ELSE h1, ud1, lp1, cmd)
           /\ ev' = IF alert
                    THEN {Event("alert", lr.chat, lr.user, lr.asset, 0, FALSE, breach)}
                    ELSE GateEvents(h1, lr, breach, now)
    /\ UNCHANGED <<calc, active_strategy, cmd, prompts, now>>

\* monitor_position after the alert was sent: the gating check
MonitorGate(l) ==
    /\ loops[l].pc = "gate"
    /\ GatePasses(heap, loops[l], loops[l].breach, now)
          => CanGetUser(heap, user_data, loops[l].chat)
    /\ LET lr  == loops[l]
           pass == GatePasses(heap, lr, lr.breach, now)
           \* _get_user runs only inside hedge_now_command_for_auto
           reg == IF pass THEN GetUserObj(heap, user_data, lr.chat) ELSE NoObj
           h1  == IF pass THEN GetUserHeap(heap, user_data, lr.chat) ELSE heap
           ud1 == IF pass THEN GetUserData(heap, user_data, lr.chat) ELSE user_data
           lp1 == [loops EXCEPT ![l] = GateLoop(h1, lr, reg, lr.breach, now)]
       IN  /\ user_data' = ud1
           /\ loops' = lp1
           /\ heap' = Collect(h1, ud1, lp1, cmd)
           /\ ev' = GateEvents(heap, lr, lr.breach, now)
    /\ UNCHANGED <<calc, active_strategy, cmd, prompts, now>>

\* MonitorErrWake that treats the failure as a fetch failure: the entry is
\* deactivated and the task ends
MonitorErrWakeStops(l) ==
    /\ loops[l].pc = "errsleep"
    /\ LET obj == loops[l].user
           e   == EntryOf(heap, obj, loops[l].asset)
           lp1 == [loops EXCEPT ![l] = FreeLoop]
       IN  /\ loops' = lp1
           /\ heap' = Collect(SetEntry(heap, obj, loops[l].asset,
                                       [e EXCEPT !.is_active = FALSE]),
                              user_data, lp1, cmd)
    /\ ev' = {Event("loop_exit", loops[l].chat, loops[l].user, loops[l].asset,
                    0, FALSE, "")}
    /\ UNCHANGED <<calc, user_data, active_strategy, cmd, prompts, now>>

\* the except branch of the loop: sleep, then the loop test
MonitorErrWake(l) ==
    /\ loops[l].pc = "errsleep"
    /\ LET lp1 == [loops EXCEPT ![l] = LoopBack(heap, loops[l])]
       IN  /\ loops' = lp1
           /\ heap' = Collect(heap, user_data, lp1, cmd)
    /\ ev' = ExitEvents(heap, loops[l])
    /\ UNCHANGED <<calc, user_data, active_strategy, cmd, prompts, now>>


(* ---------------------- hedge_now_command_for_auto --------------------- *)
\* the pipeline without its set_strategy: whatever strategy the manager holds
PipelineStrategyStale(active, strategy) ==
    IF active = NoStrategy THEN strategy ELSE active

\* the strategy the pipeline calculates and executes with: the manager's
\* active_strategy right after set_strategy(strategy); calculate_hedge and
\* execute_hedge of the strategies contain no await, so nothing runs between
\* the selection, the calculation and the execution
PipelineStrategy(active, strategy) == set_strategy(active, strategy)

\* after the price fetch: large-trade gate, or calculate and execute
AutoAfterFetch(l, p) ==
    /\ loops[l].pc = "auto_fetch"
    /\ LET lr  == loops[l]
           obj == lr.user2
           e   == EntryOf(heap, obj, lr.asset)
           size == e.size
           big == Notional(size, p) > LARGE_TRADE_NOTIONAL_THRESHOLD
           ask == p # NoPrice /\ big /\ ~e.pending_confirmation
           run == p # NoPrice /\ ~big
           strategy == UserStrategy(heap[obj])
           used == PipelineStrategy(active_strategy, strategy)
           out == HedgeOutcome(used, e.side, size, p)
           h1  == IF ask
                  THEN SetEntry(heap, obj, lr.asset,
                         [e EXCEPT !.pending_confirmation = TRUE,
                                   !.history = Append1(e.history,
                                                 "pending_confirmation_set", now)])
                  ELSE heap
           l1  == IF run /\ out = "ok" THEN [lr EXCEPT !.pc = "auto_post"]
                  \* success = False: the else branch names `update`, NameError
                  ELSE IF run /\ out = "failed" THEN [lr EXCEPT !.pc = "errsleep"]
                  ELSE LoopBack(h1, lr)
           lp1 == [loops EXCEPT ![l] = l1]
       IN  /\ ask => Room(e)
           /\ loops' = lp1
           /\ heap' = Collect(h1, user_data, lp1, cmd)
           /\ active_strategy' = IF run THEN used ELSE active_strategy
           /\ prompts' = IF ask
                         THEN prompts \cup {[chat |-> lr.chat, asset |-> lr.asset,
                                             size |-> size, kind |-> "autohedge"]}
                         ELSE prompts
           /\ ev' = (IF ask
                     THEN {Event("prompt", lr.chat, obj, lr.asset, Notional(size, p),
                                 FALSE, "autohedge")}
                     ELSE {})
                    \cup (IF run /\ out \in {"ok", "failed"}
                          THEN {Event("executed", lr.chat, obj, lr.asset,
                                      Notional(size, p), out = "ok", "auto")}
                          ELSE {})
                    \* the strategy whose calculate_hedge was called
                    \cup (IF run
                          THEN {Event("calculated", lr.chat, obj, lr.asset,
                                      Notional(size, p), out # "none", used)}
                          ELSE {})
                    \* "No hedge order generated"
                    \cup (IF run /\ out = "none"
                          THEN {Event("no_order", lr.chat, obj, lr.asset,
                                      Notional(size, p), FALSE, "auto")}
                          ELSE {})
                    \cup (IF l1.pc \in {"auto_post", "errsleep"} THEN {}
                          ELSE ExitEvents(h1, lr))
    /\ UNCHANGED <<calc, user_data, cmd, now>>

\* after the "Auto-Hedge Executed" message: suppression and the history entry
AutoPost(l) ==
    /\ loops[l].pc = "auto_post"
    /\ LET lr  == loops[l]
           obj == lr.user2
           e   == EntryOf(heap, obj, lr.asset)
           h1  == SetEntry(heap, obj, lr.asset,
                     [e EXCEPT !.suppress_alerts = TRUE,
                               !.history = Append1(e.history, "auto_hedge", now)])
           lp1 == [loops EXCEPT ![l] = LoopBack(h1, lr)]
       IN  /\ Room(e)
           /\ loops' = lp1
           /\ heap' = Collect(h1, user_data, lp1, cmd)
           /\ ev' = {Event("hedge_done", lr.chat, obj, lr.asset, 0, TRUE, "auto")}
                    \cup ExitEvents(h1, lr)
    /\ UNCHANGED <<calc, user_data, active_strategy, cmd, prompts, now>>

(* --------------------------- price_polling_loop ------------------------ *)
\* Decay with the suppression reset already at 3600s
DecaySuppressAtLimit(e, price, t) ==
    LET last_hedge_action == LastTime(e.history, HedgeMarkers)
        last_confirmation_time == LastTime(e.history, {"pending_confirmation_set"})
        unsuppress == /\ e.suppress_alerts
                      /\ last_hedge_action # NoTime
                      /\ t - last_hedge_action >= SUPPRESS_RESET
        expire == /\ e.pending_confirmation
                  /\ last_confirmation_time # NoTime
                  /\ t - last_confirmation_time > PENDING_RESET
    IN  [e EXCEPT !.suppress_alerts = IF unsuppress THEN FALSE ELSE @,
              !.pending_confirmation = IF expire THEN FALSE ELSE @]

\* Decay with the pending reset already at 1800s
DecayPendingAtLimit(e, price, t) ==
    LET last_hedge_action == LastTime(e.history, HedgeMarkers)
        last_confirmation_time == LastTime(e.history, {"pending_confirmation_set"})
        unsuppress == /\ e.suppress_alerts
                      /\ last_hedge_action # NoTime
                      /\ t - last_hedge_action > SUPPRESS_RESET
        expire == /\ e.pending_confirmation
                  /\ last_confirmation_time # NoTime
                  /\ t - last_confirmation_time >= PENDING_RESET
    IN  [e EXCEPT !.suppress_alerts = IF unsuppress THEN FALSE ELSE @,
              !.pending_confirmation = IF expire THEN FALSE ELSE @]

\* the timed resets of one entry at a successful refresh
Decay(e, price, t) ==
    LET last_hedge_action == LastTime(e.history, HedgeMarkers)
        last_confirmation_time == LastTime(e.history, {"pending_confirmation_set"})
        unsuppress == /\ e.suppress_alerts
                      /\ last_hedge_action # NoTime
                      /\ t - last_hedge_action > SUPPRESS_RESET
        expire == /\ e.pending_confirmation
                  /\ last_confirmation_time # NoTime
                  /\ t - last_confirmation_time > PENDING_RESET
    IN  [e EXCEPT !.suppress_alerts = IF unsuppress THEN FALSE ELSE @,
              !.pending_confirmation = IF expire THEN FALSE ELSE @]

Registered(ud) == {ud[c] : c \in Chats} \ {NoObj}

\* one asset of one round of price_polling_loop
PollTick(asset, p) ==
    /\ \E o \in Registered(user_data) : HasEntry(heap, o, asset)
    /\ heap' = IF p = NoPrice THEN heap
               ELSE [o \in ObjIds |->
                       IF o \in Registered(user_data) /\ HasEntry(heap, o, asset)
                       THEN [heap[o] EXCEPT !.positions[asset] =
                               Decay(heap[o].positions[asset], p, now)]
                       ELSE heap[o]]
    /\ ev' = {Event("poll", 0, NoObj, asset, 0, p # NoPrice, "")}
             \cup {Event("suppress_reset", 0, o, asset, 0, TRUE, "") :
                     o \in {x \in ObjIds : /\ heap[x].positions[asset].suppress_alerts
                                            /\ ~heap'[x].positions[asset].suppress_alerts}}
             \cup {Event("pending_reset", 0, o, asset, 0, TRUE, "") :
                     o \in {x \in ObjIds : /\ heap[x].positions[asset].pending_confirmation
                                            /\ ~heap'[x].positions[asset].pending_confirmation}}
    /\ UNCHANGED <<calc, user_data, active_strategy, loops, cmd, prompts, now>>

\* some entry carries a time: only differences of times are ever read, so the
\* clock is counted from the first recorded time
Timed(h) ==
    \E o \in ObjIds, a \in Assets :
        /\ h[o].live
        /\ \/ h[o].positions[a].history # << >>
           \/ h[o].positions[a].last_hedge_time # NoTime

\* time passes
Tick ==
    /\ Timed(heap)
    /\ now + ClockStep <= MaxTicks * ClockStep
    /\ now' = now + ClockStep
    /\ ev' = {}
    /\ UNCHANGED <<calc, user_data, heap, active_strategy, loops, cmd, prompts>>

Next ==
    \/ \E c \in MainChats, a \in Assets, s \in MonitorSizes, d \in DeltaThresholds,
          v \in VarThresholds : StartMonitoring(c, a, s, d, v)
    \/ \E c \in MainChats : SelectPortfolio(c)
    \/ \E c \in MainChats, st \in StrategyInputs : AutoHedgeCmd(c, st)
    \/ \E c \in MainChats, a \in Assets, d \in ConfigDeltaThresholds :
          Configure(c, a, d, NoVar)
    \/ \E c \in MainChats : ResetAlerts(c)
    \/ \E c \in MainChats, t \in Assets \cup {"ALL"} : StopMonitoring(c, t)
    \/ \E c \in MainChats : EmergencyStop(c)
    \/ \E c \in MainChats : ConfirmEmergencyStop(c)
    \/ \E c \in MainChats : CancelEmergencyStop(c)
    \/ \E c \in MainChats : SetAlert(c)
    \/ \E c \in MainChats, a \in Assets, s \in HedgeSizes : HedgeNowStart(c, a, s)
    \/ \E p \in FetchResults : HedgeNowCreate(p)
    \/ \E p \in FetchResults : HedgeNowFinish(p)
    \/ \E pr \in prompts : ConfirmStart(pr)
    \/ \E p \in FetchResults : ConfirmFinish(p)
    \/ \E l \in LoopIds : MonitorStart(l)
    \/ \E l \in LoopIds, p \in FetchResults : MonitorFetch(l, p)
    \/ \E l \in LoopIds : MonitorStop(l)
    \/ \E l \in LoopIds, md \in MarketSnapshots : MonitorEval(l, md)
    \/ \E l \in LoopIds : MonitorGate(l)
    \/ \E l \in LoopIds : MonitorErrWake(l)
    \/ \E l \in LoopIds, p \in FetchResults : AutoAfterFetch(l, p)
    \/ \E l \in LoopIds : AutoPost(l)
    \/ \E a \in Assets, p \in FetchResults : PollTick(a, p)
    \/ Tick

Spec == Init /\ [][Next]_vars

(* ------------------- the engine taken a part at a time ------------------ *)
\* monitor_risk_command issued while no monitor task is alive
StartMonitoringAlone(chat, asset, size, dth, vth) ==
    /\ \A l \in LoopIds : loops[l].pc = "free"
    /\ StartMonitoring(chat, asset, size, dth, vth)

\* monitoring and alerting, no auto-hedge setting
NextMonitor ==
    \/ \E c \in MainChats, a \in MainAssets, s \in MonitorSizes, d \in DeltaThresholds,
          v \in VarThresholds : StartMonitoringAlone(c, a, s, d, v)
    \/ \E c \in MainChats, a \in MainAssets, d \in ConfigDeltaThresholds :
          Configure(c, a, d, NoVar)
    \/ \E c \in MainChats : ResetAlerts(c)
    \/ \E c \in MainChats, t \in MainAssets \cup {"ALL"} : StopMonitoring(c, t)
    \/ \E c \in MainChats, a \in MainAssets, s \in HedgeSizes : HedgeNowStart(c, a, s)
    \/ \E p \in FetchResults : HedgeNowCreate(p)
    \/ \E p \in FetchResults : HedgeNowFinish(p)
    \/ \E l \in LoopIds : MonitorStart(l)
    \/ \E l \in LoopIds, p \in FetchResults : MonitorFetch(l, p)
    \/ \E l \in LoopIds : MonitorStop(l)
    \/ \E l \in LoopIds, md \in MarketSnapshots : MonitorEval(l, md)
    \/ \E l \in LoopIds : MonitorGate(l)

SpecMonitor == Init /\ [][NextMonitor]_vars

\* manual hedges, confirmations and the timed resets, no monitor loop
NextManual ==
    \/ \E c \in MainChats, a \in MainAssets, d \in ConfigDeltaThresholds :
          Configure(c, a, d, NoVar)
    \/ \E c \in MainChats : ResetAlerts(c)
    \/ \E c \in MainChats, a \in MainAssets, s \in HedgeSizes : HedgeNowStart(c, a, s)
    \/ \E p \in FetchResults : HedgeNowCreate(p)
    \/ \E p \in FetchResults : HedgeNowFinish(p)
    \/ \E pr \in prompts : ConfirmStart(pr)
    \/ \E p \in FetchResults : ConfirmFinish(p)
    \/ \E a \in MainAssets, p \in FetchResults : PollTick(a, p)
    \/ Tick

SpecManual == Init /\ [][NextManual]_vars

\* monitoring with auto-hedge: the pipeline, confirmations, the timed resets
NextAuto ==
    \/ \E c \in MainChats, a \in MainAssets, s \in MonitorSizes, d \in DeltaThresholds,
          v \in VarThresholds : StartMonitoringAlone(c, a, s, d, v)
    \/ \E c \in MainChats : SelectPortfolio(c)
    \/ \E c \in MainChats, st \in StrategyInputs : AutoHedgeCmd(c, st)
    \/ \E c \in MainChats : ResetAlerts(c)
    \/ \E pr \in prompts : ConfirmStart(pr)
    \/ \E p \in FetchResults : ConfirmFinish(p)
    \/ \E l \in LoopIds : MonitorStart(l)
    \/ \E l \in LoopIds, p \in FetchResults : MonitorFetch(l, p)
    \/ \E l \in LoopIds : MonitorStop(l)
    \/ \E l \in LoopIds, md \in MarketSnapshots : MonitorEval(l, md)
    \/ \E l \in LoopIds : MonitorGate(l)
    \/ \E l \in LoopIds : MonitorErrWake(l)
    \/ \E l \in LoopIds, p \in FetchResults : AutoAfterFetch(l, p)
    \/ \E l \in LoopIds : AutoPost(l)
    \/ \E a \in MainAssets, p \in FetchResults : PollTick(a, p)
    \/ Tick

SpecAuto == Init /\ [][NextAuto]_vars

\* the large-trade prompts: auto-hedge pipeline, manual hedge requests and
\* confirmations at one instant
NextPrompt ==
    \/ \E c \in MainChats, a \in MainAssets, s \in MonitorSizes, d \in DeltaThresholds,
          v \in VarThresholds : StartMonitoringAlone(c, a, s, d, v)
    \/ \E c \in MainChats : SelectPortfolio(c)
    \/ \E c \in MainChats, st \in StrategyInputs : AutoHedgeCmd(c, st)
    \/ \E c \in MainChats, a \in MainAssets, s \in HedgeSizes : HedgeNowStart(c, a, s)
    \/ \E p \in FetchResults : HedgeNowCreate(p)
    \/ \E p \in FetchResults : HedgeNowFinish(p)
    \/ \E pr \in prompts : ConfirmStart(pr)
    \/ \E p \in FetchResults : ConfirmFinish(p)
    \/ \E l \in LoopIds : MonitorStart(l)
    \/ \E l \in LoopIds, p \in FetchResults : MonitorFetch(l, p)
    \/ \E l \in LoopIds : MonitorStop(l)
    \/ \E l \in LoopIds, md \in MarketSnapshots : MonitorEval(l, md)
    \/ \E l \in LoopIds : MonitorGate(l)
    \/ \E l \in LoopIds : MonitorErrWake(l)
    \/ \E l \in LoopIds, p \in FetchResults : AutoAfterFetch(l, p)
    \/ \E l \in LoopIds : AutoPost(l)

SpecPrompt == Init /\ [][NextPrompt]_vars

\* the scenarios of a position of size 100 at prices 10, 46 and 46000: ticks
\* with and without auto-hedging
ScenarioPrices == {10, 46, 46000}
ScenarioResults == ScenarioPrices \cup {NoPrice}
ScenarioVarThresholds == {NoVar, 20000}
ScenarioStrategies == {"dynamic", "options"}

NextScenario ==
    \/ \E c \in MainChats, a \in MainAssets, s \in MonitorSizes, d \in DeltaThresholds,
          v \in ScenarioVarThresholds : StartMonitoringAlone(c, a, s, d, v)
    \/ \E c \in MainChats : SelectPortfolio(c)
    \/ \E c \in MainChats, st \in ScenarioStrategies : AutoHedgeCmd(c, st)
    \/ \E l \in LoopIds : MonitorStart(l)
    \/ \E l \in LoopIds, p \in ScenarioResults : MonitorFetch(l, p)
    \/ \E l \in LoopIds : MonitorStop(l)
    \/ \E l \in LoopIds, md \in [Assets -> ScenarioResults] : MonitorEval(l, md)
    \/ \E l \in LoopIds : MonitorGate(l)
    \/ \E l \in LoopIds : MonitorErrWake(l)
    \/ \E l \in LoopIds, p \in ScenarioResults : AutoAfterFetch(l, p)
    \/ \E l \in LoopIds : AutoPost(l)

SpecScenario == Init /\ [][NextScenario]_vars

\* the size of a /hedge_now request that differs from the monitored size
RequestSizes == {200}

\* a monitored position and manual hedge requests of another size
NextSizes ==
    \/ \E c \in MainChats, a \in MainAssets, s \in MonitorSizes, d \in DeltaThresholds :
          StartMonitoringAlone(c, a, s, d, NoVar)
    \/ \E c \in MainChats, a \in MainAssets, s \in RequestSizes : HedgeNowStart(c, a, s)
    \/ \E p \in FetchResults : HedgeNowCreate(p)
    \/ \E p \in FetchResults : HedgeNowFinish(p)
    \/ \E pr \in prompts : ConfirmStart(pr)
    \/ \E p \in FetchResults : ConfirmFinish(p)
    \/ \E l \in LoopIds : MonitorStart(l)
    \/ \E l \in LoopIds, p \in FetchResults : MonitorFetch(l, p)
    \/ \E l \in LoopIds : MonitorStop(l)
    \/ \E l \in LoopIds, md \in MarketSnapshots : MonitorEval(l, md)
    \/ \E l \in LoopIds : MonitorGate(l)
    \/ \E a \in MainAssets, p \in FetchResults : PollTick(a, p)
    \/ Tick

SpecSizes == Init /\ [][NextSizes]_vars

\* every way of setting suppress_alerts, and the timed resets
NextSuppress ==
    \/ \E c \in MainChats, a \in MainAssets, s \in MonitorSizes, d \in DeltaThresholds :
          StartMonitoringAlone(c, a, s, d, NoVar)
    \/ \E c \in MainChats, a \in MainAssets, d \in ConfigDeltaThresholds :
          Configure(c, a, d, NoVar)
    \/ \E c \in MainChats, a \in MainAssets : ThresholdButton(c, a)
    \/ \E c \in MainChats, a \in MainAssets, s \in HedgeSizes : HedgeNowStart(c, a, s)
    \/ \E p \in FetchResults : HedgeNowCreate(p)
    \/ \E p \in FetchResults : HedgeNowFinish(p)
    \/ \E l \in LoopIds : MonitorStart(l)
    \/ \E a \in MainAssets, p \in FetchResults : PollTick(a, p)
    \/ Tick

\* time passes, and the polling loop keeps running with fetches that succeed
\* (it is a task started once that sleeps 20s between rounds)
SpecSuppress ==
    /\ Init
    /\ [][NextSuppress]_vars
    /\ WF_vars(Tick)
    /\ WF_vars(\E a \in MainAssets, p \in Prices : PollTick(a, p))

\* the second user, and the chats' own strategies in the two-user runs
OtherChats == Chats \ MainChats
ChatStrategy == [c \in Chats |-> IF c \in MainChats THEN "dynamic" ELSE "delta_neutral"]
\* the one price of the two-user runs: small notional, both strategies hedge
UserPrices == {10}

\* /monitor_risk of a chat that has no entry for the asset
StartMonitoringFirst(chat, asset, size, dth, vth) ==
    /\ user_data[chat] # NoObj => ~HasEntry(heap, user_data[chat], asset)
    /\ StartMonitoring(chat, asset, size, dth, vth)

\* two users on the one bot: each monitors the asset and auto-hedges with a
\* strategy of their own, and both press strategy buttons
NextUsers ==
    \/ \E c \in Chats, a \in MainAssets, s \in MonitorSizes, d \in DeltaThresholds :
          StartMonitoringFirst(c, a, s, d, NoVar)
    \/ \E c \in Chats : SelectPortfolio(c)
    \/ \E c \in Chats : AutoHedgeCmd(c, ChatStrategy[c])
    \/ \E c \in Chats, name \in ButtonStrategies : StrategyButton(c, name)
    \/ \E l \in LoopIds : MonitorStart(l)
    \/ \E l \in LoopIds, p \in UserPrices : MonitorFetch(l, p)
    \/ \E l \in LoopIds, md \in MarketSnapshots : MonitorEval(l, md)
    \/ \E l \in LoopIds : MonitorGate(l)
    \/ \E l \in LoopIds, p \in UserPrices : AutoAfterFetch(l, p)
    \/ \E l \in LoopIds : AutoPost(l)

SpecUsers == Init /\ [][NextUsers]_vars

\* two users, one of whom stops monitoring while the other's loop runs
NextStop ==
    \/ \E c \in Chats, a \in MainAssets, s \in MonitorSizes, d \in DeltaThresholds :
          StartMonitoringFirst(c, a, s, d, NoVar)
    \/ \E c \in Chats : SelectPortfolio(c)
    \/ \E c \in Chats : AutoHedgeCmd(c, ChatStrategy[c])
    \/ \E c \in OtherChats, t \in MainAssets \cup {"ALL"} : StopMonitoring(c, t)
    \/ \E l \in LoopIds : MonitorStart(l)
    \/ \E l \in LoopIds, p \in UserPrices : MonitorFetch(l, p)
    \/ \E l \in LoopIds, md \in MarketSnapshots : MonitorEval(l, md)
    \/ \E l \in LoopIds : MonitorGate(l)
    \/ \E l \in LoopIds : MonitorErrWake(l)
    \/ \E l \in LoopIds, p \in UserPrices : AutoAfterFetch(l, p)
    \/ \E l \in LoopIds : AutoPost(l)

SpecStop == Init /\ [][NextStop]_vars

\* failing ticks of two entries side by side: the options strategy on long
\* positions, whose every execution fails
NextFailures ==
    \/ \E c \in MainChats, a \in Assets, s \in MonitorSizes, d \in DeltaThresholds :
          StartMonitoring(c, a, s, d, NoVar)
    \/ \E c \in MainChats : SelectPortfolio(c)
    \/ \E c \in MainChats : AutoHedgeCmd(c, "options")
    \/ \E l \in LoopIds : MonitorStart(l)
    \/ \E l \in LoopIds, p \in FetchResults : MonitorFetch(l, p)
    \/ \E l \in LoopIds : MonitorStop(l)
    \/ \E l \in LoopIds, md \in MarketSnapshots : MonitorEval(l, md)
    \/ \E l \in LoopIds : MonitorGate(l)
    \/ \E l \in LoopIds : MonitorErrWake(l)
    \/ \E l \in LoopIds, p \in FetchResults : AutoAfterFetch(l, p)

SpecFailures == Init /\ [][NextFailures]_vars

\* the monitor tasks of two assets: starts and re-arms at any time, fetch
\* failures, emergency stops
NextLoops ==
    \/ \E c \in MainChats, a \in Assets, s \in MonitorSizes, d \in DeltaThresholds,
          v \in VarThresholds : StartMonitoring(c, a, s, d, v)
    \/ \E c \in MainChats : EmergencyStop(c)
    \/ \E c \in MainChats : ConfirmEmergencyStop(c)
    \/ \E l \in LoopIds : MonitorStart(l)
    \/ \E l \in LoopIds, p \in FetchResults : MonitorFetch(l, p)
    \/ \E l \in LoopIds : MonitorStop(l)
    \/ \E l \in LoopIds, md \in MarketSnapshots : MonitorEval(l, md)
    \/ \E l \in LoopIds : MonitorGate(l)

SpecLoops == Init /\ [][NextLoops]_vars

\* the life of one entry: armed, stopped by an emergency stop or by the fetch
\* failure of its first tick, hedged, confirmed, configured, refreshed, re-armed
NextLifecycle ==
    \/ \E c \in MainChats, a \in MainAssets, s \in MonitorSizes, d \in DeltaThresholds,
          v \in VarThresholds : StartMonitoringAlone(c, a, s, d, v)
    \/ \E c \in MainChats, a \in MainAssets, d \in ConfigDeltaThresholds :
          Configure(c, a, d, NoVar)
    \/ \E c \in MainChats : ResetAlerts(c)
    \/ \E c \in MainChats : EmergencyStop(c)
    \/ \E c \in MainChats : ConfirmEmergencyStop(c)
    \/ \E c \in MainChats, a \in MainAssets, s \in HedgeSizes : HedgeNowStart(c, a, s)
    \/ \E p \in FetchResults : HedgeNowCreate(p)
    \/ \E p \in FetchResults : HedgeNowFinish(p)
    \/ \E pr \in prompts : ConfirmStart(pr)
    \/ \E p \in FetchResults : ConfirmFinish(p)
    \/ \E l \in LoopIds : MonitorStart(l)
    \/ \E l \in LoopIds : MonitorFetch(l, NoPrice)
    \/ \E l \in LoopIds : MonitorStop(l)
    \/ \E a \in MainAssets, p \in FetchResults : PollTick(a, p)
    \/ Tick

SpecLifecycle == Init /\ [][NextLifecycle]_vars

\* emergency stops over two assets: entries monitored and re-armed, auto-hedge
\* enabled, custom alerts set, loops ended by fetch failures
NextEmergency ==
    \/ \E c \in MainChats, a \in Assets, s \in MonitorSizes, d \in DeltaThresholds,
          v \in VarThresholds : StartMonitoring(c, a, s, d, v)
    \/ \E c \in MainChats : SelectPortfolio(c)
    \/ \E c \in MainChats : AutoHedgeCmd(c, "delta_neutral")
    \/ \E c \in MainChats : SetAlert(c)
    \/ \E c \in MainChats : EmergencyStop(c)
    \/ \E c \in MainChats : ConfirmEmergencyStop(c)
    \/ \E c \in MainChats : CancelEmergencyStop(c)
    \/ \E l \in LoopIds : MonitorStart(l)
    \/ \E l \in LoopIds : MonitorFetch(l, NoPrice)
    \/ \E l \in LoopIds : MonitorStop(l)

SpecEmergency == Init /\ [][NextEmergency]_vars

(* ------------------------- the pure functions --------------------------- *)
Orders ==
    {NoOrder} \cup {[side |-> sd, size |-> sz, price100 |-> 1000] :
                      sd \in OrderSides, sz \in OrderSizes}

ValidateCalls ==
    {[NoCalc EXCEPT !.fn = "validate_hedge", !.order = o, !.pos_side = ps] :
        o \in Orders, ps \in PosSides}

RecommendCalls ==
    {[NoCalc EXCEPT !.fn = "generate_hedge_recommendation", !.size = sz, !.price = p,
                    !.delta = d, !.threshold = th] :
        sz \in RecSizes, p \in RecPrices, d \in RecDeltas, th \in RecThresholds}

GreeksCalls ==
    {[NoCalc EXCEPT !.fn = "calculate_position_greeks", !.pos_side = sd, !.size = sz,
                    !.price = p, !.volatility = v] :
        sd \in GreekSides, sz \in GreekSizes, p \in GreekPrices, v \in Volatilities}

\* the Position objects of a portfolio
PortfolioPositions ==
    [symbol : Assets, side : GreekSides, size : PortfolioSizes]

PositionLists == UNION {[1..k -> PortfolioPositions] : k \in 0..MaxPositions}

PortfolioCalls ==
    {[NoCalc EXCEPT !.fn = "calculate_portfolio_risk", !.positions = ps,
                    !.market_data_dict = md] :
        ps \in PositionLists, md \in [Assets -> {NoPrice, 10}]}

DynamicCalls ==
    {[NoCalc EXCEPT !.fn = "calculate_hedge", !.pos_side = sd, !.size = sz,
                    !.price = p, !.delta = d] :
        sd \in GreekSides, sz \in RecSizes, p \in RecPrices, d \in DynDeltas}

\* a strategy's calculate_hedge followed by its own execute_hedge
StrategyCalls ==
    {[NoCalc EXCEPT !.fn = "execute_hedge", !.strategy = st, !.pos_side = sd,
                    !.size = sz, !.price = p, !.delta = d] :
        st \in StrategyNames, sd \in GreekSides, sz \in MonitorSizes,
        p \in GreekPrices, d \in RecDeltas}

BreachCalls ==
    {[NoCalc EXCEPT !.fn = "breach_type", !.pos_side = sd, !.size = sz, !.price = p,
                    !.threshold = th, !.var_threshold = vth, !.total_value = tv] :
        sd \in GreekSides, sz \in PortfolioSizes, p \in BreachPrices,
        th \in DeltaThresholds, vth \in VarThresholds \cup {NoVar},
        tv \in {0, 1000, 4600000}}

\* a call with its arguments, not yet evaluated
InitPure ==
    /\ user_data = [c \in Chats |-> NoObj]
    /\ heap = [o \in ObjIds |-> DeadUser]
    /\ active_strategy = NoStrategy
    /\ loops = [l \in LoopIds |-> FreeLoop]
    /\ cmd = IdleCmd
    /\ prompts = {}
    /\ now = 0
    /\ ev = {}
    /\ calc \in ValidateCalls \cup RecommendCalls \cup GreeksCalls \cup PortfolioCalls
                \cup DynamicCalls \cup BreachCalls \cup StrategyCalls

ApplyValidateHedge ==
    /\ calc.fn = "validate_hedge"
    /\ ~calc.done
    /\ calc' = [calc EXCEPT !.done = TRUE,
                            !.valid = validate_hedge(calc.order, calc.pos_side)]
    /\ UNCHANGED <<user_data, heap, active_strategy, loops, cmd, prompts, now, ev>>

ApplyRecommendation ==
    /\ calc.fn = "generate_hedge_recommendation"
    /\ ~calc.done
    /\ calc' = [calc EXCEPT !.done = TRUE,
                            !.hedge_size = generate_hedge_recommendation(
                                              calc.size, calc.price, calc.delta,
                                              calc.threshold)]
    /\ UNCHANGED <<user_data, heap, active_strategy, loops, cmd, prompts, now, ev>>

ApplyPositionGreeks ==
    /\ calc.fn = "calculate_position_greeks"
    /\ ~calc.done
    /\ calc' = [calc EXCEPT !.done = TRUE,
                            !.metrics = calculate_position_greeks(
                                           calc.pos_side, calc.size, calc.price,
                                           calc.volatility)]
    /\ UNCHANGED <<user_data, heap, active_strategy, loops, cmd, prompts, now, ev>>

ApplyPortfolioRisk ==
    /\ calc.fn = "calculate_portfolio_risk"
    /\ ~calc.done
    /\ calc' = [calc EXCEPT !.done = TRUE,
                            !.metrics = calculate_portfolio_risk(
                                           calc.positions, calc.market_data_dict)]
    /\ UNCHANGED <<user_data, heap, active_strategy, loops, cmd, prompts, now, ev>>

ApplyDynamicHedge ==
    /\ calc.fn = "calculate_hedge"
    /\ ~calc.done
    /\ calc' = [calc EXCEPT !.done = TRUE,
                            !.hedge_order = calculate_hedge("dynamic", calc.pos_side,
                                               calc.size, calc.delta, calc.price)]
    /\ UNCHANGED <<user_data, heap, active_strategy, loops, cmd, prompts, now, ev>>

\* the order of the strategy's calculate_hedge handed to its execute_hedge:
\* HedgeResult.success
ApplyStrategyHedge ==
    /\ calc.fn = "execute_hedge"
    /\ ~calc.done
    /\ LET hedge_order == calculate_hedge(calc.strategy, calc.pos_side, calc.size,
                                          calc.delta, calc.price)
       IN  calc' = [calc EXCEPT !.done = TRUE,
                                !.hedge_order = hedge_order,
                                !.valid = execute_hedge(hedge_order, calc.pos_side)]
    /\ UNCHANGED <<user_data, heap, active_strategy, loops, cmd, prompts, now, ev>>

\* the breach classification of one tick, from the position's price and the
\* portfolio's total value
ApplyBreachType ==
    /\ calc.fn = "breach_type"
    /\ ~calc.done
    /\ calc' = [calc EXCEPT !.done = TRUE,
                            !.breach_type =
                               BreachType(
                                  DeltaBreach([side |-> calc.pos_side, size |-> calc.size,
                                               threshold |-> calc.threshold],
                                              calc.price),
                                  calc.var_threshold, calc.total_value)]
    /\ UNCHANGED <<user_data, heap, active_strategy, loops, cmd, prompts, now, ev>>

NextPure ==
    \/ ApplyValidateHedge
    \/ ApplyRecommendation
    \/ ApplyPositionGreeks
    \/ ApplyPortfolioRisk
    \/ ApplyDynamicHedge
    \/ ApplyBreachType
    \/ ApplyStrategyHedge

SpecPure == InitPure /\ [][NextPure]_vars

(* ------------------------------ properties ------------------------------ *)
Events(type) == {e \in ev : e.type = type}
NewEvents(type) == {e \in ev' : e.type = type}

\* the entry an event is about, before and after the step
Before(e) == EntryOf(heap, e.obj, e.asset)
After(e) == EntryOf(heap', e.obj, e.asset)

\* the time of the latest history entry with one of the given tags, stated over
\* the indices of the history
IsLatest(hist, kinds, i) ==
    /\ i \in 1..Len(hist)
    /\ hist[i].action \in kinds
    /\ \A j \in (i + 1)..Len(hist) : hist[j].action \notin kinds
OlderThan(hist, kinds, t, age) ==
    \E i \in 1..Len(hist) : IsLatest(hist, kinds, i) /\ t - hist[i].time > age

\* a user's data as every handler reads it: _get_user gives an unknown chat
\* an empty dict
UserView(h, ud, c) == IF ud[c] = NoObj THEN NewUser ELSE h[ud[c]]

\* C1: a monitor tick sends no risk alert for an entry whose suppress_alerts is
\* true when the alert is decided, whatever the breach (none, delta, var).
C1_NoAlertWhileSuppressed ==
    [][\A e \in NewEvents("alert") : ~Before(e).suppress_alerts]_vars

\* a breaching tick on a suppressed entry went on to the gating check with no
\* alert sent
C1_Witness ==
    \E e \in Events("gate") :
        /\ e.tag \in {"delta", "var"}
        /\ EntryOf(heap, e.obj, e.asset).suppress_alerts
        /\ Events("alert") = {}

\* C2: no hedge order of notional above 100000 is executed, on any path, unless
\* pending_confirmation was set for that entry before: the entry is pending or
\* its history holds a pending_confirmation_set marker.
C2_LargeHedgeNeedsPending ==
    [][\A e \in NewEvents("executed") :
          (e.flag /\ e.n > LARGE_TRADE_NOTIONAL_THRESHOLD)
            => \/ Before(e).pending_confirmation
               \/ \E i \in 1..Len(Before(e).history) :
                     Before(e).history[i].action = "pending_confirmation_set"]_vars

\* C3: right after a successful hedge execution the entry has suppress_alerts
\* true and a manual_hedge / auto_hedge entry is the last of its history.
C3_SuppressedAfterHedge ==
    [][\A e \in NewEvents("executed") :
          e.flag => /\ After(e).suppress_alerts
                    /\ After(e).history # << >>
                    /\ After(e).history[Len(After(e).history)].action \in HedgeMarkers
                    /\ After(e).history[Len(After(e).history)].time = now]_vars

\* C4: every successful hedge, once its bookkeeping is done, has set
\* last_hedge_time to the time of the hedge and left pending_confirmation false.
C4_HedgeSetsLastHedgeTime ==
    [][\A e \in NewEvents("hedge_done") :
          /\ After(e).last_hedge_time = now
          /\ ~After(e).pending_confirmation]_vars

\* C5: once a confirmation event for an entry with pending_confirmation true is
\* processed, pending_confirmation is false whatever the outcome, and is_active
\* is as before.
C5_ConfirmationClearsPending ==
    [][\A e \in NewEvents("confirm_done") :
          Before(e).pending_confirmation
            => /\ ~After(e).pending_confirmation
               /\ After(e).is_active = Before(e).is_active]_vars

\* C6: a price refresh sets suppress_alerts of an entry to false exactly when
\* it was true and the latest manual_hedge / auto_hedge entry of the history is
\* older than 3600s; otherwise suppress_alerts stays as it was.
C6_SuppressionExpires ==
    [][\A e \in NewEvents("poll"), o \in Registered(user_data) :
          heap'[o].positions[e.asset].suppress_alerts
            = IF /\ e.flag
                 /\ heap[o].positions[e.asset].suppress_alerts
                 /\ OlderThan(heap[o].positions[e.asset].history, HedgeMarkers, now,
                              SUPPRESS_RESET)
              THEN FALSE
              ELSE heap[o].positions[e.asset].suppress_alerts]_vars

\* a refresh has just ended the suppression of an entry with two hedges in its
\* history
C6_Witness ==
    \E e \in Events("suppress_reset") :
        Len(EntryOf(heap, e.obj, e.asset).history) = 2

\* C7: a successful price refresh clears pending_confirmation of a refreshed
\* entry exactly when its latest pending_confirmation_set marker is older than
\* 1800s, and every pending entry the refresh reaches has such a marker, so
\* the reset comes once the clock has passed it.
C7_PendingExpires ==
    [][/\ \A o \in Registered(user_data'), a \in Assets :
             heap'[o].positions[a].pending_confirmation
               => \E i \in 1..Len(heap'[o].positions[a].history) :
                     heap'[o].positions[a].history[i].action = "pending_confirmation_set"
       /\ \A e \in NewEvents("poll"), o \in Registered(user_data) :
             heap[o].positions[e.asset].pending_confirmation
               => (heap'[o].positions[e.asset].pending_confirmation
                     <=> ~(e.flag /\ OlderThan(heap[o].positions[e.asset].history,
                                               {"pending_confirmation_set"}, now,
                                               PENDING_RESET)))]_vars

\* a refresh has just cleared an expired pending confirmation
C7_Witness == Events("pending_reset") # {}

\* C8: the tick calls the hedge pipeline iff, at the gating check, auto-hedge
\* is enabled, the tick found a breach, pending_confirmation and suppress_alerts
\* are false and last_hedge_time is unset or at least 300s old.
C8_Gating ==
    [][\A e \in NewEvents("gate") :
          LET called == \E l \in LoopIds :
                           /\ loops[l].pc \in {"portfolio", "gate"}
                           /\ loops'[l].pc \in {"auto_fetch", "errsleep"}
          IN  /\ e.flag <=> called
              /\ called <=> /\ heap[e.obj].enabled
                            /\ e.tag \in {"delta", "var"}
                            /\ ~Before(e).pending_confirmation
                            /\ ~Before(e).suppress_alerts
                            /\ \/ Before(e).last_hedge_time = NoTime
                               \/ now - Before(e).last_hedge_time >= HEDGE_COOLDOWN]_vars

\* the pipeline was called for an entry hedged before, the cooldown over
C8_Witness ==
    \E e \in Events("gate") :
        /\ e.flag
        /\ EntryOf(heap, e.obj, e.asset).last_hedge_time # NoTime

\* C9: while an entry is pending and its pending_confirmation_set marker is
\* younger than 1800s, no further large-trade confirmation prompt is issued
\* for it.
C9_NoSecondPrompt ==
    [][\A e \in NewEvents("prompt") :
          ~(/\ Before(e).pending_confirmation
            /\ \E i \in 1..Len(Before(e).history) :
                  /\ IsLatest(Before(e).history, {"pending_confirmation_set"}, i)
                  /\ now - Before(e).history[i].time < PENDING_RESET)]_vars

\* C10: after stop_monitoring for an asset or for ALL, every entry it names
\* has is_active false.
C10_StopDeactivates ==
    [][\A e \in NewEvents("stop"), a \in Assets :
          (e.obj # NoObj /\ e.asset \in {"ALL", a})
            => ~(/\ HasEntry(heap', e.obj, a)
                 /\ EntryOf(heap', e.obj, a).is_active)]_vars

\* C11: at any time at most one monitor loop is running for a (user, asset)
\* pair; a loop is running once its task has entered the loop.
C11_OneLoopPerEntry ==
    \A l1 \in LoopIds, l2 \in LoopIds :
        (/\ l1 # l2
         /\ loops[l1].pc \notin {"free", "start"}
         /\ loops[l2].pc \notin {"free", "start"})
          => ~(/\ loops[l1].chat = loops[l2].chat
               /\ loops[l1].asset = loops[l2].asset)

C13_InactiveStaysInactive ==
    [][\A o \in ObjIds, a \in Assets :
          (/\ heap[o].live
           /\ heap[o].positions[a].present
           /\ ~heap[o].positions[a].is_active
           /\ heap'[o].positions[a].is_active)
            => \E e \in NewEvents("start") : e.obj = o /\ e.asset = a]_vars

\* an entry that existed and was stopped has just been re-armed
C13_Witness ==
    \E e \in Events("start") :
        /\ e.flag
        /\ EntryOf(heap, e.obj, e.asset).is_active

\* C14: stop_monitoring naming an entry that is already inactive leaves the
\* user's entry in place with its action history exactly as it was.
C14_StopKeepsHistory ==
    [][\A e \in NewEvents("stop"), a \in Assets :
          (/\ e.asset \in {"ALL", a}
           /\ HasEntry(heap, e.obj, a)
           /\ ~EntryOf(heap, e.obj, a).is_active
           /\ EntryOf(heap, e.obj, a).history # << >>)
            => /\ HasEntry(heap', user_data'[e.chat], a)
               /\ EntryOf(heap', user_data'[e.chat], a).history
                    = EntryOf(heap, e.obj, a).history]_vars

\* C15: starting monitoring again for an asset that has an entry replaces the
\* entry: the user's one entry for the asset is active, unsuppressed, not
\* pending, without last_hedge_time, with an empty history and the thresholds
\* just given.
C15_RestartReplacesEntry ==
    [][\A e \in NewEvents("start") :
          e.flag
            => /\ user_data'[e.chat] = e.obj
               /\ After(e).size \in MonitorSizes
               /\ After(e).var_threshold \in VarThresholds
               /\ After(e) = [present |-> TRUE, size |-> After(e).size, side |-> "long",
                              threshold |-> e.n,
                              var_threshold |-> After(e).var_threshold,
                              is_active |-> TRUE, suppress_alerts |-> FALSE,
                              pending_confirmation |-> FALSE,
                              last_hedge_time |-> NoTime, history |-> << >>]]_vars

\* monitoring was started again over an existing entry, once the clock had
\* moved on from the entry's first recorded action
C15_Witness ==
    \E e \in Events("start") : e.flag /\ now > 0

C17_UnknownStrategyRejected ==
    [][\A e \in NewEvents("auto_hedge_cmd") :
          e.tag \notin {"delta_neutral", "options", "dynamic"}
            => /\ ~e.flag
               /\ active_strategy' = active_strategy
               /\ \A c \in Chats :
                     UserView(heap', user_data', c) = UserView(heap, user_data, c)]_vars

\* an unknown name was just refused while auto-hedge was enabled with a
\* strategy and a strategy was active
C17_Witness ==
    \E e \in Events("auto_hedge_cmd") :
        /\ e.tag = "bogus"
        /\ heap[e.obj].enabled
        /\ heap[e.obj].strategy \in StrategyNames
        /\ active_strategy \in StrategyNames

\* C18: an emergency stop leaves every entry of the user inactive, auto-hedge
\* disabled and no custom alert, and reports the number of entries that were
\* active before it; run on a user already stopped it reports 0 and changes
\* nothing.
C18_EmergencyStop ==
    [][\A e \in NewEvents("emergency_stop") :
          LET before == UserView(heap, user_data, e.chat)
              after  == UserView(heap', user_data', e.chat)
              active == {a \in Assets : before.positions[a].is_active}
          IN  /\ user_data'[e.chat] = e.obj
              /\ \A a \in Assets : ~after.positions[a].is_active
              /\ ~after.enabled
              /\ after.alerts = 0
              /\ e.n = Cardinality(active)
              /\ (active = {} /\ ~before.enabled /\ before.alerts = 0)
                    => after = before]_vars

\* an emergency stop has just stopped both monitored entries of a user who had
\* auto-hedge enabled
C18_Witness ==
    \E e \in Events("emergency_stop") :
        /\ e.n = 2
        /\ heap[e.obj].strategy \in StrategyNames
        /\ \A a \in Assets : HasEntry(heap, e.obj, a)

\* C19: validate_hedge returns false for a null order, a size <= 0, a side
\* outside {buy, sell}, a long position with a buy order and a short position
\* with a sell order, and true for every other order, whatever the position
\* when none is given.
C19_ValidateHedge ==
    (calc.fn = "validate_hedge" /\ calc.done)
      => (calc.valid
            <=> ~(\/ calc.order = NoOrder
                  \/ calc.order.size <= 0
                  \/ calc.order.side \notin {"buy", "sell"}
                  \/ (calc.pos_side = "long" /\ calc.order.side = "buy")
                  \/ (calc.pos_side = "short" /\ calc.order.side = "sell")))

\* a buy order of positive size was found valid with no position given
C19_Witness ==
    /\ calc.fn = "validate_hedge"
    /\ calc.done
    /\ calc.valid
    /\ calc.pos_side = "none"
    /\ calc.order.side = "buy"

\* C20: with size x price not zero, generate_hedge_recommendation returns
\* none iff |delta| / (size x price) <= threshold, and a recommendation it
\* returns has hedge_size |delta|.
C20_HedgeRecommendation ==
    (calc.fn = "generate_hedge_recommendation" /\ calc.done
        /\ calc.size * calc.price # 0)
      => LET pv == calc.size * calc.price
             ad == IF calc.delta < 0 THEN 0 - calc.delta ELSE calc.delta
             \* ad / pv <= threshold / BP
             within == IF pv > 0 THEN ad * BP <= calc.threshold * pv
                       ELSE ad * BP >= calc.threshold * pv
         IN  /\ (calc.hedge_size = NoRecommendation) <=> within
             /\ ~within => calc.hedge_size = ad

\* no recommendation for an exposure exactly at the threshold: 100 / (100 x 20)
\* against 5%
C20_Witness ==
    /\ calc.fn = "generate_hedge_recommendation"
    /\ calc.done
    /\ calc.size * calc.price > 0
    /\ Abs(calc.delta) * BP = calc.threshold * (calc.size * calc.price)
    /\ calc.hedge_size = NoRecommendation

\* C21: for a spot position calculate_position_greeks returns delta = +size for
\* a long position and delta = -size for a short one, with gamma, theta and
\* vega all 0.
C21_SpotGreeks ==
    (calc.fn = "calculate_position_greeks" /\ calc.done)
      => /\ calc.metrics.some
         /\ calc.pos_side = "long" => calc.metrics.delta = calc.size
         /\ calc.pos_side = "short" => calc.metrics.delta + calc.size = 0
         /\ calc.metrics.gamma = 0
         /\ calc.metrics.theta = 0
         /\ calc.metrics.vega = 0

\* a short position of size 100 came out with delta -100
C21_Witness ==
    /\ calc.fn = "calculate_position_greeks"
    /\ calc.done
    /\ calc.pos_side = "short"
    /\ calc.size = 100
    /\ calc.metrics.delta = -100

\* C22: every risk-metrics result, of a position or of a portfolio, has var_99
\* strictly above var_95 when the volatility is positive (the portfolio's is the
\* fixed 25%), also for a portfolio without any matching snapshot.
C22_Var99AboveVar95 ==
    (/\ calc.done
     /\ \/ calc.fn = "calculate_position_greeks" /\ calc.volatility > 0
        \/ calc.fn = "calculate_portfolio_risk")
      => calc.metrics.var_99 > calc.metrics.var_95

\* C26: breach_type of a tick is var whenever var_threshold is set and the
\* portfolio var_95 exceeds it, also when the delta condition holds; it is delta
\* iff |delta| / positionValue > delta_threshold and the var condition does not
\* hold; it is none iff neither holds.  (For a spot position |delta| /
\* positionValue is 1 / price; var_95 is 0.1179 of the total value.)
C26_BreachClassification ==
    (calc.fn = "breach_type" /\ calc.done)
      => LET deltaBreach == /\ calc.size # 0
                            /\ calc.price > 0
                            /\ BP > calc.threshold * calc.price
             varBreach == /\ calc.var_threshold # NoVar
                          /\ calc.total_value
                               > (calc.var_threshold * VAR95_DEN) \div VAR95_NUM
         IN  /\ calc.breach_type = "none" <=> (~deltaBreach /\ ~varBreach)
             /\ varBreach => calc.breach_type = "var"
             /\ calc.breach_type = "delta" <=> (deltaBreach /\ ~varBreach)

\* a tick with both conditions true was classified var
C26_Witness ==
    /\ calc.fn = "breach_type"
    /\ calc.done
    /\ calc.size = 100
    /\ calc.price = 10
    /\ calc.var_threshold = 20000
    /\ calc.total_value = 4600000
    /\ calc.breach_type = "var"

\* C29: with size x price not zero, DynamicHedgingStrategy.calculate_hedge
\* returns no order iff |delta| / (size x price) < 0.05; an order it returns has
\* size min(|delta|, 1000000) and side sell for a long position, buy for a
\* short one.
C29_DynamicHedge ==
    (calc.fn = "calculate_hedge" /\ calc.done /\ calc.size * calc.price # 0)
      => LET pv == calc.size * calc.price
             ad == IF calc.delta < 0 THEN 0 - calc.delta ELSE calc.delta
             \* ad / pv < 1/20
             below == pv < 0 \/ ad * 20 < pv
         IN  /\ calc.hedge_order = NoOrder <=> below
             /\ ~below =>
                  /\ calc.hedge_order.size = (IF ad < 1000000 THEN ad ELSE 1000000)
                  /\ calc.pos_side = "long" => calc.hedge_order.side = "sell"
                  /\ calc.pos_side = "short" => calc.hedge_order.side = "buy"

\* a ratio of exactly 0.05 (100 / (100 x 20)) gave a sell order of size 100
C29_Witness ==
    /\ calc.fn = "calculate_hedge"
    /\ calc.done
    /\ calc.pos_side = "long"
    /\ calc.size = 100
    /\ calc.price = 20
    /\ calc.delta = 100
    /\ calc.hedge_order.size = 100
    /\ calc.hedge_order.side = "sell"

\* the sum of f over the indices in S
RECURSIVE SumIdx(_, _)
SumIdx(f, S) ==
    IF S = {} THEN 0
    ELSE LET i == CHOOSE x \in S : TRUE
         IN  f[i] + SumIdx(f, S \ {i})

\* C30: calculate_portfolio_risk returns a result (never an error) whose delta,
\* gamma, theta and vega are the sums over exactly the positions whose symbol has
\* a market snapshot, and whose VaR is taken from the notional of those
\* positions alone.
C30_PortfolioSums ==
    (calc.fn = "calculate_portfolio_risk" /\ calc.done)
      => LET ps == calc.positions
             matched == {i \in 1..Len(ps) : calc.market_data_dict[ps[i].symbol] # NoPrice}
             deltas == [i \in 1..Len(ps) |->
                          IF ps[i].side = "long" THEN ps[i].size ELSE 0 - ps[i].size]
             values == [i \in 1..Len(ps) |->
                          ps[i].size * calc.market_data_dict[ps[i].symbol]]
         IN  /\ calc.metrics.some
             /\ calc.metrics.delta = SumIdx(deltas, matched)
             /\ calc.metrics.gamma = 0
             /\ calc.metrics.theta = 0
             /\ calc.metrics.vega = 0
             /\ calc.metrics.var_95 = VAR95_NUM * SumIdx(values, matched)
             /\ calc.metrics.var_99 = VAR99_NUM * SumIdx(values, matched)

\* of two long positions of size 100 only the one with a snapshot was counted
C30_Witness ==
    /\ calc.fn = "calculate_portfolio_risk"
    /\ calc.done
    /\ Len(calc.positions) = 2
    /\ calc.positions[1].size = 100
    /\ calc.positions[2].size = 100
    /\ calc.positions[1].side = "long"
    /\ calc.positions[2].side = "long"
    /\ calc.market_data_dict[calc.positions[1].symbol] # NoPrice
    /\ calc.market_data_dict[calc.positions[2].symbol] = NoPrice
    /\ calc.metrics.delta = 100
    /\ calc.metrics.var_95 = VAR95_NUM * 1000

\* C23: a monitor tick at price 46000 on a spot long position of size 100 with
\* delta_threshold 0.05 finds current_risk above the threshold, so that the
\* tick is a delta breach (and the alert of an unsuppressed breach follows).
C23_TickAt46000Breaches ==
    [][\A e \in NewEvents("risk") :
          (/\ Before(e).size = 100
           /\ Before(e).side = "long"
           /\ Before(e).threshold = 500
           /\ e.n = 46000)
            => e.flag]_vars

\* the loops that evaluate the breach of entry (obj, asset) in this step
EvalLoops(obj, asset) ==
    {l \in LoopIds : /\ loops[l].pc = "portfolio"
                     /\ loops'[l] # loops[l]
                     /\ loops[l].user = obj
                     /\ loops[l].asset = asset}

\* C24: alerts are not de-duplicated: a tick that finds a breach while
\* suppress_alerts is false sends exactly one risk alert (a breach passes on
\* without one only under suppression), and sending it changes nothing in the
\* entry, so the next identical tick sends the alert again.
C24_NoDedup ==
    [][/\ \A e \in NewEvents("gate") :
             (EvalLoops(e.obj, e.asset) # {} /\ e.tag # "none")
               => \/ Before(e).suppress_alerts
                  \/ UserView(heap, user_data, e.chat).positions[e.asset].suppress_alerts
       /\ Cardinality(NewEvents("alert")) <= 1
       /\ \A e \in NewEvents("alert") :
             /\ e.tag # "none"
             /\ After(e) = Before(e)]_vars

\* a delta-breach alert went out for an entry that is not suppressed, has never
\* been hedged and has no auto-hedging: the state every further tick starts from
C24_Witness ==
    \E e \in Events("alert") :
        /\ e.tag = "delta"
        /\ ~EntryOf(heap, e.obj, e.asset).suppress_alerts
        /\ EntryOf(heap, e.obj, e.asset).history = << >>
        /\ EntryOf(heap, e.obj, e.asset).last_hedge_time = NoTime
        /\ ~heap[e.obj].enabled

\* the events of the auto-hedge pipeline in this step
NewAutoEvents ==
    {e \in ev' : \/ e.type \in {"no_order", "executed"} /\ e.tag = "auto"
                 \/ e.type = "prompt" /\ e.tag = "autohedge"}

\* the entry's hedge state is the same after the step
SameHedgeState(e) ==
    /\ After(e).suppress_alerts = Before(e).suppress_alerts
    /\ After(e).pending_confirmation = Before(e).pending_confirmation
    /\ After(e).last_hedge_time = Before(e).last_hedge_time
    /\ After(e).history = Before(e).history

\* C25: with auto-hedge enabled and the dynamic strategy, the pipeline run on a
\* position of value 4,600,000 (ratio below 0.05) places no order and leaves
\* suppress_alerts, pending_confirmation, last_hedge_time and the history of
\* the entry unchanged.
C25_DynamicBelowRatioNoChange ==
    [][\A e \in NewAutoEvents :
          (UserStrategy(heap[e.obj]) = "dynamic" /\ e.n = 4600000)
            => e.type = "no_order" /\ SameHedgeState(e)]_vars

\* C25, amended: with the dynamic strategy and a ratio below 0.05 the pipeline
\* places no order; with a notional of at most 100000 it reports that no order
\* was generated and leaves the entry's hedge state unchanged, and with a value
\* of 4,600,000 it stops at the large-trade gate, which (no confirmation
\* pending yet) sets pending_confirmation, appends pending_confirmation_set to
\* the history and sends the confirmation prompt, with suppress_alerts and
\* last_hedge_time unchanged.
C25_DynamicBelowRatio ==
    [][\A e \in NewAutoEvents :
          (/\ UserStrategy(heap[e.obj]) = "dynamic"
           /\ Abs(SpotDelta(Before(e).side, Before(e).size)) * 20 < e.n)
            => /\ e.type # "executed"
               /\ e.n <= LARGE_TRADE_NOTIONAL_THRESHOLD
                    => e.type = "no_order" /\ SameHedgeState(e)
               /\ e.n = 4600000
                    => /\ e.type = "prompt"
                       /\ ~Before(e).pending_confirmation
                       /\ After(e) =
                            [Before(e) EXCEPT
                               !.pending_confirmation = TRUE,
                               !.history = Append1(Before(e).history,
                                             "pending_confirmation_set", now)]]_vars

\* the dynamic strategy was asked on a position of value 4600 (ratio 1/46) and
\* generated no order
C25_Witness ==
    \E e \in Events("no_order") :
        /\ e.tag = "auto"
        /\ e.n = 4600
        /\ heap[e.obj].enabled
        /\ UserStrategy(heap[e.obj]) = "dynamic"
        /\ EntryOf(heap, e.obj, e.asset).size = 100
        /\ ~EntryOf(heap, e.obj, e.asset).pending_confirmation
        /\ EntryOf(heap, e.obj, e.asset).history = << >>

\* the loops whose tick ends in the except branch in this step
FailingLoops == {l \in LoopIds : loops[l].pc # "errsleep" /\ loops'[l].pc = "errsleep"}

\* the loops that leave the sleep of the except branch in this step
WakingLoops == {l \in LoopIds : loops[l].pc = "errsleep" /\ loops'[l] # loops[l]}

\* C27: an exception raised during a monitor tick, the hedge pipeline's
\* included, ends that tick only: the step that fails and the step that leaves
\* the except branch keep the entry and its is_active as they are and change no
\* other loop, and the loop of a still active entry goes on to its next tick.
C27_TickFailureContained ==
    [][/\ \A l \in FailingLoops :
             /\ EntryOf(heap', loops[l].user, loops[l].asset)
                  = EntryOf(heap, loops[l].user, loops[l].asset)
             /\ \A l2 \in LoopIds \ {l} : loops'[l2] = loops[l2]
       /\ \A l \in WakingLoops :
             /\ EntryOf(heap', loops[l].user, loops[l].asset).is_active
                  = EntryOf(heap, loops[l].user, loops[l].asset).is_active
             /\ \A l2 \in LoopIds \ {l} : loops'[l2] = loops[l2]
             /\ LoopCond(heap, loops[l])
                  => loops'[l].pc = "sleep" /\ LoopCond(heap', loops'[l])]_vars

\* the hedge execution of one entry's tick has just failed, the entry is still
\* active, and the loop of another entry is in the middle of its own tick
C27_Witness ==
    \E l \in LoopIds, l2 \in LoopIds :
        /\ loops[l].pc = "errsleep"
        /\ LoopCond(heap, loops[l])
        /\ \E e \in Events("executed") :
              ~e.flag /\ e.tag = "auto" /\ e.asset = loops[l].asset
        /\ l2 # l
        /\ loops[l2].pc \in {"portfolio", "gate", "auto_fetch"}
        /\ loops[l2].asset # loops[l].asset
        /\ LoopCond(heap, loops[l2])

\* C28: when execute_hedge returns success = False in the auto-hedge pipeline,
\* a failure notification goes to the chat of the owning user, and
\* suppress_alerts, last_hedge_time and the history of the entry stay as they
\* were.
C28_AutoFailureNotified ==
    [][\A e \in NewEvents("executed") :
          (e.tag = "auto" /\ ~e.flag)
            => /\ \E m \in NewEvents("hedge_failed") :
                     m.chat = e.chat /\ m.asset = e.asset
               /\ After(e).suppress_alerts = Before(e).suppress_alerts
               /\ After(e).last_hedge_time = Before(e).last_hedge_time
               /\ After(e).history = Before(e).history]_vars

\* C31: emitting a risk alert changes nothing in the entry: suppress_alerts,
\* pending_confirmation, last_hedge_time, is_active and the history are the
\* same after the alert as before it.
C31_AlertChangesNothing ==
    [][\A e \in NewEvents("alert") :
          /\ After(e).suppress_alerts = Before(e).suppress_alerts
          /\ After(e).pending_confirmation = Before(e).pending_confirmation
          /\ After(e).last_hedge_time = Before(e).last_hedge_time
          /\ After(e).is_active = Before(e).is_active
          /\ After(e).history = Before(e).history]_vars

\* an alert went out for an active entry that already has a history
C31_Witness ==
    \E e \in Events("alert") :
        /\ EntryOf(heap, e.obj, e.asset).is_active
        /\ ~EntryOf(heap, e.obj, e.asset).suppress_alerts
        /\ EntryOf(heap, e.obj, e.asset).history # << >>

\* C32: once an entry exists, the size and the side of its Position stay as
\* they were given: no step other than a new /monitor_risk for the entry
\* changes them, a manual hedge request or a confirmation of another size
\* included.
C32_SizeAndSideKept ==
    [][\A o \in ObjIds, a \in Assets :
          (/\ HasEntry(heap, o, a)
           /\ HasEntry(heap', o, a)
           /\ NewEvents("start") = {})
            => /\ EntryOf(heap', o, a).size = EntryOf(heap, o, a).size
               /\ EntryOf(heap', o, a).side = EntryOf(heap, o, a).side]_vars

\* C33: an emergency stop takes effect only on its confirmation: the request
\* deactivates no entry and leaves the auto-hedge setting and the custom
\* alerts as they were, and so does a cancel, so that after a cancel
\* everything is as before the request.
C33_StopOnlyOnConfirmation ==
    [][\A e \in NewEvents("emergency_stop") \cup NewEvents("emergency_cancel") :
          e.tag \in {"request", "cancel"}
            => LET before == UserView(heap, user_data, e.chat)
                   after  == UserView(heap', user_data', e.chat)
               IN  /\ \A a \in Assets :
                         after.positions[a].is_active = before.positions[a].is_active
                   /\ after.enabled = before.enabled
                   /\ after.alerts = before.alerts]_vars

\* C34: suppression is time-bounded however it was set: an entry whose
\* suppress_alerts is true, with no later hedge and with price refreshes that
\* keep succeeding, has suppress_alerts false again at some later time without
\* a manual reset.  Stated for the suppressions set at time 0, which the clock
\* of the model outlasts by more than 3600s.
C34_SuppressionTimeBounded ==
    \A o \in ObjIds, a \in MainAssets :
        []((/\ HasEntry(heap, o, a)
            /\ EntryOf(heap, o, a).suppress_alerts
            /\ now = 0)
             => <>(\/ ~EntryOf(heap, o, a).suppress_alerts
                   \/ LastTime(EntryOf(heap, o, a).history, HedgeMarkers) > 0))

\* C35: a confirmation event executes a hedge only if pending_confirmation is
\* true for the entry: the execution of a confirmed auto-hedge finds the entry
\* pending, so that a confirmation after the 1800s expiry reset, or of a
\* prompt whose entry is no longer pending, executes nothing.
C35_ConfirmationNeedsPending ==
    [][\A e \in NewEvents("executed") :
          e.tag = "confirm_autohedge" => Before(e).pending_confirmation]_vars

\* C36: two hedge executions of the auto-hedge pipeline for one entry are never
\* less than 300s apart: when the pipeline executes an order, the latest
\* auto_hedge entry of the history, if there is one, is at least 300s old.
C36_AutoHedgesApart ==
    [][\A e \in NewEvents("executed") :
          (e.tag = "auto" /\ e.flag)
            => LET last == LastTime(Before(e).history, {"auto_hedge"})
               IN  last = NoTime \/ now - last >= HEDGE_COOLDOWN]_vars

\* C37: for each strategy and each position side, the order the strategy's
\* calculate_hedge returns for a position with non-zero delta passes the
\* strategy's own validate_hedge, so that its execute_hedge does not fail with
\* "Invalid hedge order".
C37_OwnOrdersValid ==
    (/\ calc.fn = "execute_hedge"
     /\ calc.done
     /\ calc.delta # 0
     /\ calc.hedge_order # NoOrder)
      => calc.valid

\* C38: a hedge for a user is calculated and executed by the strategy that
\* user configured, whatever another user's pipeline or strategy selection did
\* to the shared HedgingManager before: the strategy the pipeline calls is the
\* one of the user's auto_hedge setting, and it is the manager's active
\* strategy when the order is executed.
C38_OwnStrategyUsed ==
    [][\A e \in NewEvents("calculated") :
          /\ e.tag = UserStrategy(heap[e.obj])
          /\ active_strategy' = e.tag]_vars

\* the first user's hedge was calculated by their dynamic strategy right after
\* the manager held another strategy, while the second user's pipeline waits
\* for its price
C38_Witness ==
    \E e \in Events("calculated"), l \in LoopIds :
        /\ e.chat \in MainChats
        /\ e.tag = "dynamic"
        /\ e.flag
        /\ loops[l].chat \in OtherChats
        /\ loops[l].pc = "auto_fetch"
        /\ UserStrategy(heap[loops[l].user2]) = "delta_neutral"

\* C39: a stop_monitoring command of one user leaves every other user's data
\* as it was: the entries, the auto-hedge setting and the monitor loops of the
\* other users are the same after the command as before it.
C39_StopTouchesOwnEntriesOnly ==
    [][\A e \in NewEvents("stop") : \A c \in Chats \ {e.chat} :
          /\ UserView(heap', user_data', c) = UserView(heap, user_data, c)
          /\ \A l \in LoopIds : loops[l].chat = c => loops'[l] = loops[l]]_vars

====
